---- MODULE Spec2Model ----
(***************************************************************************)
(* Model of the OCPP 1.6 smart-charging helpers of                         *)
(* src/src/charging-station/ocpp/1.6/OCPP16ServiceUtils.ts:                *)
(*   - setChargingProfile / clearChargingProfiles on one connector's       *)
(*     chargingProfiles list (specification SpecProfiles);                 *)
(*   - composeChargingSchedules / composeChargingSchedule on two charging  *)
(*     schedules and a composite interval (specification SpecCompose).     *)
(*   - hasReservation on one station's reservations (SpecReservation);     *)
(*   - changeAvailability and remoteStopTransaction on one station's       *)
(*     connectors (SpecSession);                                           *)
(*   - buildMeterValue on one connector's energy registers (SpecMeter),    *)
(*     its energy increment against the connector's maximum (SpecEnergy)   *)
(*     and its SoC and Voltage sampled values (SpecSoCVoltage);            *)
(* and of the web UI client's sendRequest / responseHandler of             *)
(* src/ui/web/src/composables/UIClient.ts (SpecUI).                        *)
(* Instants are whole seconds since an arbitrary origin t0.                *)
(***************************************************************************)
EXTENDS Integers, Sequences, FiniteSets, TLC

(***************************************************************************)
(* Bounds of the model.                                                    *)
(***************************************************************************)
\* longest chargingProfiles list the model lets setChargingProfile build
MaxProfiles == 2
\* chargingProfileId ranges over 1..MaxProfileId
MaxProfileId == 2
\* stackLevel ranges over 0..MaxStackLevel
MaxStackLevel == 1

\* a schedule's startSchedule ranges over 0..MaxStart
MaxStart == 2
\* a schedule's duration ranges over 1..MaxDuration
MaxDuration == 3
\* a schedule has 1..MaxPeriods periods
MaxPeriods == 2
\* a period's startPeriod ranges over 0..MaxStartPeriod
MaxStartPeriod == 2
\* compositeInterval.start ranges over 0..MaxCompositeStart
MaxCompositeStart == 1
\* composeChargingSchedules is called at most MaxCalls times on the same schedules
MaxCalls == 2

\* connector ids range over 0..MaxConnectorId (0 is the station itself)
MaxConnectorId == 1
\* the clock and the expiry dates range over 0..MaxClock
MaxClock == 2

\* UIClient.sendRequest is called at most MaxRequests times
MaxRequests == 2
\* the 60000 ms of the send timeout, in steps of the model's clock
TimeoutTicks == 2

\* an energy register holds at most MaxEnergy, in hundredths of a Wh
MaxEnergy == 3
\* connectorMaximumEnergyRounded ranges over 0..MaxIncrement
MaxIncrement == 2
\* connectorMaximumAvailablePower ranges over 0..MaxPower, in W
MaxPower == 2

\* The value of an optional number that was not supplied (JS undefined).
Undefined == -1

\* OCPP16ChargingProfilePurposeType values used by the model.
Purposes == {"TxDefaultProfile", "TxProfile"}
\* The purpose of a payload that supplies none (JS undefined).
NoPurpose == "undefined"

ProfileIds == 1..MaxProfileId
StackLevels == 0..MaxStackLevel

\* OCPP16ChargingProfile, reduced to the fields the helpers read.
Profiles ==
  [chargingProfileId : ProfileIds,
   stackLevel : StackLevels,
   chargingProfilePurpose : Purposes]

\* ClearChargingProfileRequest: every field is optional.
ClearPayloads ==
  [id : ProfileIds \cup {Undefined},
   stackLevel : StackLevels \cup {Undefined},
   chargingProfilePurpose : Purposes \cup {NoPurpose}]

VARIABLES
  \* ---- connector state (setChargingProfile / clearChargingProfiles)
  cpKind,            \* "undefined" | "notArray" | "array": what connectorStatus.chargingProfiles holds
  chargingProfiles,  \* the list, when cpKind = "array" (<<>> otherwise)
  \* ---- record of the last call on the list
  lastOp,            \* "none" | "set" | "clear"
  lastCp,            \* the profile passed to the last setChargingProfile
  lastPayload,       \* the payload passed to the last clearChargingProfiles
  lastRet,           \* what the last clearChargingProfiles returned
  beforeKind,        \* cpKind before the last call
  before,            \* chargingProfiles before the last call
  cleared,           \* the profiles the last clearChargingProfiles spliced out (its debug log)
  repeated,          \* the last call was a clear directly after a clear with the same payload
  firstCp,           \* the profile of the set directly before the last set, when both
                     \* carry the same (stackLevel, chargingProfilePurpose); NoProfile otherwise
  \* ---- the schedules handed to composeChargingSchedules
  higher,            \* chargingScheduleHigher, as the object is now
  lower,             \* chargingScheduleLower, as the object is now
  compositeInterval, \* [start, end]
  \* ---- record of the last composeChargingSchedules call
  result,            \* what it returned (kind "none" before the first call)
  higherIn,          \* chargingScheduleHigher as it was when the call was made
  lowerIn,           \* chargingScheduleLower as it was when the call was made
  calls,             \* number of calls made
  \* ---- connector ledger read by hasReservation
  connectorsStatus,  \* connector id -> ConnectorStatus.status
  reservations,      \* connector id -> ConnectorStatus.reservation (NoReservation when absent)
  now,               \* the clock
  lastHasReservation, \* [called, connectorId, idTag, ret] of the last hasReservation call
  \* ---- connector ledger under changeAvailability / remoteStopTransaction
  connectors,        \* connector id -> [status, availability, transactionStarted]
  ca,                \* the changeAvailability call: its arguments, loop position and responses
  rs,                \* the remoteStopTransaction call: its argument, position and stop response
  trace,             \* the calls made by the handler in progress, in order
  \* ---- UIClient
  readyState,        \* this.ws.readyState
  requests,          \* uuid -> [state, reason, age]: the promise sendRequest returned
  responseHandlers,  \* the uuids that are keys of this.responseHandlers
  timers,            \* the uuids whose sendTimeout timer is armed
  notAResponse,      \* responseHandler threw 'Not a response to a request'
  \* ---- station and connector read and written by buildMeterValue
  powerDivider,      \* chargingStation.powerDivider: [defined, value]
  currentOutType,    \* chargingStation.stationInfo.currentOutType
  energyActiveImportRegisterValue,            \* connector register: [defined, value]
  transactionEnergyActiveImportRegisterValue, \* connector register: [defined, value]
  lastMeter,         \* the last buildMeterValue call: its templates, outcome and the registers before it
  \* ---- what buildMeterValue computed in its last call
  lastEnergy,        \* energy block: template, inputs, increment and the registers before it
  \* ---- the SoC and Voltage blocks of buildMeterValue
  socSampledValueTemplate,     \* the connector's SoC template
  voltageSampledValueTemplate, \* the connector's Voltage template
  stationInfo,       \* numberOfPhases, voltageOut, mainVoltageMeterValues, phaseLineToLineVoltageMeterValues
  meterValue         \* meterValue.sampledValue of the last call

varsProfiles ==
  <<cpKind, chargingProfiles, lastOp, lastCp, lastPayload, lastRet,
    beforeKind, before, cleared, repeated, firstCp>>

varsCompose ==
  <<higher, lower, compositeInterval, result, higherIn, lowerIn, calls>>

varsReservation == <<connectorsStatus, reservations, now, lastHasReservation>>

varsSession == <<connectors, ca, rs, trace>>

varsUI == <<readyState, requests, responseHandlers, timers, notAResponse>>

varsMeter ==
  <<powerDivider, currentOutType, energyActiveImportRegisterValue,
    transactionEnergyActiveImportRegisterValue, lastMeter>>

varsSampled ==
  <<lastEnergy, socSampledValueTemplate, voltageSampledValueTemplate, stationInfo, meterValue>>

vars ==
  <<varsProfiles, varsCompose, varsReservation, varsSession, varsUI, varsMeter, varsSampled>>

(***************************************************************************)
(* utils: isNotEmptyArray(x) is Array.isArray(x) && x.length > 0.          *)
(***************************************************************************)
isNotEmptyArray(kind, list) == kind = "array" /\ Len(list) > 0

\* JS truthiness of an optional number: undefined and 0 are both falsy.
FalsyNumber(n) == n = Undefined \/ n = 0

\* JS truthiness of an optional enum string: only undefined is falsy.
FalsyPurpose(p) == p = NoPurpose

\* Array.prototype.splice(index, 1) at 1-based position k.
Splice(list, k) == SubSeq(list, 1, k - 1) \o SubSeq(list, k + 1, Len(list))

(***************************************************************************)
(* setChargingProfile: the forEach replaces every entry that matches cp by *)
(* chargingProfileId or by (stackLevel, chargingProfilePurpose); cp is     *)
(* pushed when nothing was replaced.                                       *)
(***************************************************************************)
SetMatches(chargingProfile, cp) ==
  \/ chargingProfile.chargingProfileId = cp.chargingProfileId
  \/ /\ chargingProfile.stackLevel = cp.stackLevel
     /\ chargingProfile.chargingProfilePurpose = cp.chargingProfilePurpose

\* A forEach that stops at the first replacement.
setChargingProfile_FirstOnly(kind, list, cp) ==
  LET l0 == IF kind = "array" THEN list ELSE <<>>
      hits == {i \in 1..Len(l0) : SetMatches(l0[i], cp)}
      first == CHOOSE i \in hits : \A j \in hits : i <= j
  IN  IF hits # {}
        THEN [l0 EXCEPT ![first] = cp]
        ELSE Append(l0, cp)

\* A forEach that matches on chargingProfileId alone.
setChargingProfile_IdOnly(kind, list, cp) ==
  LET l0 == IF kind = "array" THEN list ELSE <<>>
      hits == {i \in 1..Len(l0) : l0[i].chargingProfileId = cp.chargingProfileId}
  IN  IF hits # {}
        THEN [i \in 1..Len(l0) |-> IF i \in hits THEN cp ELSE l0[i]]
        ELSE Append(l0, cp)

\* The list held by the connector after setChargingProfile(connector, cp).
setChargingProfile(kind, list, cp) ==
  LET l0 == IF kind = "array" THEN list ELSE <<>>   \* deferred initialization
      cpReplaced == \E i \in 1..Len(l0) : SetMatches(l0[i], cp)
      replaced == [i \in 1..Len(l0) |-> IF SetMatches(l0[i], cp) THEN cp ELSE l0[i]]
  IN  IF isNotEmptyArray("array", l0) /\ cpReplaced
        THEN replaced
        ELSE Append(l0, cp)

(***************************************************************************)
(* clearChargingProfiles: forEach over the list with splice(index, 1)      *)
(* inside the callback.  forEach reads the length once, visits index       *)
(* 0, 1, ... and skips an index that is no longer in the array; after a    *)
(* splice at index k the element that followed moves to k and the next     *)
(* visit is k + 1.                                                         *)
(***************************************************************************)
ClearCurrentCP(chargingProfile, payload) ==
  \/ chargingProfile.chargingProfileId = payload.id
  \/ /\ FalsyPurpose(payload.chargingProfilePurpose)
     /\ chargingProfile.stackLevel = payload.stackLevel
  \/ /\ FalsyNumber(payload.stackLevel)
     /\ chargingProfile.chargingProfilePurpose = payload.chargingProfilePurpose
  \/ /\ chargingProfile.stackLevel = payload.stackLevel
     /\ chargingProfile.chargingProfilePurpose = payload.chargingProfilePurpose

RECURSIVE ClearForEach(_, _, _, _)
ClearForEach(st, payload, k, len0) ==
  IF k > len0 \/ k > Len(st.list)
    THEN st
    ELSE IF ClearCurrentCP(st.list[k], payload)
           THEN ClearForEach([list |-> Splice(st.list, k),
                              ret |-> TRUE,
                              removed |-> Append(st.removed, st.list[k])],
                             payload, k + 1, len0)
           ELSE ClearForEach(st, payload, k + 1, len0)

\* clearedCP assigned outside the if (clearCurrentCP) block.
clearChargingProfiles_FlagAlways(kind, list, payload) ==
  LET st0 == [list |-> list, ret |-> FALSE, removed |-> <<>>]
      st == IF isNotEmptyArray(kind, list)
              THEN ClearForEach(st0, payload, 1, Len(list))
              ELSE st0
  IN  [st EXCEPT !.ret = isNotEmptyArray(kind, list)]

\* [list, ret, removed]: the list afterwards, the value returned, the profiles logged as cleared.
clearChargingProfiles(kind, list, payload) ==
  LET st0 == [list |-> list, ret |-> FALSE, removed |-> <<>>]
  IN  IF isNotEmptyArray(kind, list)
        THEN ClearForEach(st0, payload, 1, Len(list))
        ELSE st0

(***************************************************************************)
(* date-fns, on instants that are whole seconds.                           *)
(***************************************************************************)
addSeconds(date, amount) == date + amount
differenceInSeconds(dateLeft, dateRight) == dateLeft - dateRight
isBefore(date, dateToCompare) == date < dateToCompare
isAfter(date, dateToCompare) == date > dateToCompare
\* not inclusive: intervals that only touch do not overlap
\* An overlap test that counts a shared end point as an overlap.
areIntervalsOverlapping_Inclusive(intervalLeft, intervalRight) ==
  /\ intervalLeft.start <= intervalRight.end
  /\ intervalRight.start <= intervalLeft.end

areIntervalsOverlapping(intervalLeft, intervalRight) ==
  /\ intervalLeft.start < intervalRight.end
  /\ intervalRight.start < intervalLeft.end

\* A membership test that leaves out both end points.
isWithinInterval_Exclusive(date, interval) ==
  date > interval.start /\ date < interval.end

\* inclusive at both ends
isWithinInterval(date, interval) ==
  date >= interval.start /\ date <= interval.end

(***************************************************************************)
(* Array helpers.                                                          *)
(***************************************************************************)
\* Array.prototype.sort((a, b) => a.startPeriod - b.startPeriod): stable.
RECURSIVE InsertPeriod(_, _)
InsertPeriod(sorted, p) ==
  IF sorted = <<>>
    THEN <<p>>
    ELSE IF sorted[Len(sorted)].startPeriod <= p.startPeriod
           THEN Append(sorted, p)
           ELSE Append(InsertPeriod(SubSeq(sorted, 1, Len(sorted) - 1), p),
                       sorted[Len(sorted)])

RECURSIVE SortByStartPeriod(_)
SortByStartPeriod(periods) ==
  IF periods = <<>>
    THEN <<>>
    ELSE InsertPeriod(SortByStartPeriod(SubSeq(periods, 1, Len(periods) - 1)),
                      periods[Len(periods)])

\* The indexes a filter callback keeps, in ascending order.
RECURSIVE IndexSeq(_)
IndexSeq(S) ==
  IF S = {}
    THEN <<>>
    ELSE LET m == CHOOSE x \in S : \A y \in S : y <= x
         IN  Append(IndexSeq(S \ {m}), m)

(***************************************************************************)
(* Charging schedules.  A schedule is                                      *)
(*   [defined, startSchedule, duration, chargingSchedulePeriod]            *)
(* with defined = FALSE for the JS value undefined; a period is            *)
(*   [startPeriod, limit].                                                 *)
(***************************************************************************)
UndefinedSchedule ==
  [defined |-> FALSE, startSchedule |-> 0, duration |-> 0,
   chargingSchedulePeriod |-> <<>>]

(***************************************************************************)
(* composeChargingSchedule(chargingSchedule, compositeInterval).           *)
(* Returns the projection and what the call leaves in its argument:        *)
(*   schedule : the returned schedule (defined = FALSE for undefined)      *)
(*   alias    : alias[k] is the index, in the argument's period array, of  *)
(*              the period object that the k-th returned period is         *)
(*   argument : chargingSchedule after the call (the sort is in place and  *)
(*              the map callback assigns startPeriod on a shared object)   *)
(***************************************************************************)
composeChargingSchedule(chargingSchedule, interval) ==
  LET chargingScheduleInterval ==
        [start |-> chargingSchedule.startSchedule,
         end |-> addSeconds(chargingSchedule.startSchedule, chargingSchedule.duration)]
      sorted == SortByStartPeriod(chargingSchedule.chargingSchedulePeriod)
      n == Len(sorted)
      Inside(i) ==
        isWithinInterval(
          addSeconds(chargingScheduleInterval.start, sorted[i].startPeriod),
          interval)
      keptBefore ==
        IndexSeq({i \in 1..n :
                    \/ Inside(i)
                    \/ (i < n /\ ~Inside(i) /\ Inside(i + 1))})
      mutated ==
        IF keptBefore # <<>> /\ sorted[keptBefore[1]].startPeriod # 0
          THEN [sorted EXCEPT ![keptBefore[1]].startPeriod = 0]
          ELSE sorted
      keptAfter == IndexSeq({i \in 1..n : Inside(i)})
  IN  IF areIntervalsOverlapping(chargingScheduleInterval, interval)
        THEN IF isBefore(chargingScheduleInterval.start, interval.start)
               THEN [schedule |->
                       [defined |-> TRUE,
                        startSchedule |-> interval.start,
                        duration |-> differenceInSeconds(chargingScheduleInterval.end,
                                                         interval.start),
                        chargingSchedulePeriod |->
                          [k \in 1..Len(keptBefore) |-> mutated[keptBefore[k]]]],
                     alias |-> keptBefore,
                     argument |-> [chargingSchedule EXCEPT
                                     !.chargingSchedulePeriod = mutated]]
               ELSE IF isAfter(chargingScheduleInterval.end, interval.end)
                      THEN [schedule |->
                              [defined |-> TRUE,
                               startSchedule |-> chargingSchedule.startSchedule,
                               duration |-> differenceInSeconds(interval.end,
                                                                chargingScheduleInterval.start),
                               chargingSchedulePeriod |->
                                 [k \in 1..Len(keptAfter) |-> sorted[keptAfter[k]]]],
                            alias |-> keptAfter,
                            argument |-> [chargingSchedule EXCEPT
                                            !.chargingSchedulePeriod = sorted]]
                      ELSE [schedule |-> [chargingSchedule EXCEPT
                                            !.chargingSchedulePeriod = sorted],
                            alias |-> [k \in 1..n |-> k],
                            argument |-> [chargingSchedule EXCEPT
                                            !.chargingSchedulePeriod = sorted]]
        ELSE [schedule |-> UndefinedSchedule,
              alias |-> <<>>,
              argument |-> chargingSchedule]

(***************************************************************************)
(* composeChargingSchedules(higher, lower, compositeInterval).             *)
(* Returns [result, higher, lower]: the value returned and the two         *)
(* argument schedules as the call leaves them.  result.kind is             *)
(*   "schedule"  : a schedule was returned                                 *)
(*   "undefined" : undefined was returned                                  *)
(*   "TypeError" : a property of an undefined projection was read          *)
(***************************************************************************)
Returned(schedule) ==
  IF schedule.defined
    THEN [kind |-> "schedule",
          startSchedule |-> schedule.startSchedule,
          duration |-> schedule.duration,
          chargingSchedulePeriod |-> schedule.chargingSchedulePeriod]
    ELSE [kind |-> "undefined", startSchedule |-> 0, duration |-> 0,
          chargingSchedulePeriod |-> <<>>]

Thrown ==
  [kind |-> "TypeError", startSchedule |-> 0, duration |-> 0,
   chargingSchedulePeriod |-> <<>>]

\* no call made yet
NoResult ==
  [kind |-> "none", startSchedule |-> 0, duration |-> 0,
   chargingSchedulePeriod |-> <<>>]

\* lines 1059-1217: both projections are defined
ComposeBoth(ph, pl) ==
  LET H == ph.schedule
      L == pl.schedule
      compositeChargingScheduleHigherInterval ==
        [start |-> H.startSchedule, end |-> addSeconds(H.startSchedule, H.duration)]
      compositeChargingScheduleLowerInterval ==
        [start |-> L.startSchedule, end |-> addSeconds(L.startSchedule, L.duration)]
      hI == compositeChargingScheduleHigherInterval
      lI == compositeChargingScheduleLowerInterval
      higherFirst == isBefore(hI.start, lI.start)
      startSchedule == IF higherFirst THEN hI.start ELSE lI.start
      duration == IF higherFirst
                    THEN differenceInSeconds(lI.end, hI.start)
                    ELSE differenceInSeconds(hI.end, lI.start)
      higherPeriods ==
        [k \in 1..Len(H.chargingSchedulePeriod) |->
           [H.chargingSchedulePeriod[k] EXCEPT
              !.startPeriod =
                 IF higherFirst
                   THEN 0
                   ELSE @ + differenceInSeconds(hI.start, lI.start)]]
      \* no overlap: every lower period is mapped
      lowerPeriodsAll ==
        [k \in 1..Len(L.chargingSchedulePeriod) |->
           [L.chargingSchedulePeriod[k] EXCEPT
              !.startPeriod =
                 IF higherFirst
                   THEN @ + differenceInSeconds(lI.start, hI.start)
                   ELSE 0]]
      \* overlap: the filter callback of lines 1141-1199
      nL == Len(L.chargingSchedulePeriod)
      At(i) == addSeconds(lI.start, L.chargingSchedulePeriod[i].startPeriod)
      InLowerStartToHigherEnd(i) ==
        isWithinInterval(At(i), [start |-> lI.start, end |-> hI.end])
      InHigherStartToLowerEnd(i) ==
        isWithinInterval(At(i), [start |-> hI.start, end |-> lI.end])
      Keep(i) ==
        IF higherFirst /\ InLowerStartToHigherEnd(i)
          THEN FALSE
          ELSE IF /\ higherFirst
                  /\ i < nL
                  /\ ~InLowerStartToHigherEnd(i)
                  /\ InLowerStartToHigherEnd(i + 1)
                 THEN FALSE
                 ELSE IF ~higherFirst /\ InHigherStartToLowerEnd(i)
                        THEN FALSE
                        ELSE TRUE
      kept == IndexSeq({i \in 1..nL : Keep(i)})
      \* the map callback of lines 1200-1214 assigns startPeriod = 0 on the
      \* first kept period object, which the lower argument shares
      firstReset == kept # <<>> /\ L.chargingSchedulePeriod[kept[1]].startPeriod # 0
      lowerPeriodsKept ==
        [k \in 1..Len(kept) |->
           [L.chargingSchedulePeriod[kept[k]] EXCEPT
              !.startPeriod =
                 IF higherFirst
                   THEN (IF k = 1 THEN 0 ELSE @)
                          + differenceInSeconds(lI.start, hI.start)
                   ELSE 0]]
      lowerAfter ==
        IF firstReset
          THEN [pl.argument EXCEPT
                  !.chargingSchedulePeriod[pl.alias[kept[1]]].startPeriod = 0]
          ELSE pl.argument
  IN  IF ~areIntervalsOverlapping(hI, lI)
        THEN [result |->
                [kind |-> "schedule",
                 startSchedule |-> startSchedule,
                 duration |-> duration,
                 chargingSchedulePeriod |->
                   SortByStartPeriod(higherPeriods \o lowerPeriodsAll)],
              higher |-> ph.argument,
              lower |-> pl.argument]
        ELSE [result |->
                [kind |-> "schedule",
                 startSchedule |-> startSchedule,
                 duration |-> duration,
                 chargingSchedulePeriod |->
                   SortByStartPeriod(higherPeriods \o lowerPeriodsKept)],
              higher |-> ph.argument,
              lower |-> lowerAfter]

composeChargingSchedules(chargingScheduleHigher, chargingScheduleLower, interval) ==
  LET ph == composeChargingSchedule(chargingScheduleHigher, interval)
      pl == composeChargingSchedule(chargingScheduleLower, interval)
  IN  IF ~chargingScheduleHigher.defined /\ ~chargingScheduleLower.defined
        THEN [result |-> Returned(UndefinedSchedule),
              higher |-> chargingScheduleHigher,
              lower |-> chargingScheduleLower]
        ELSE IF chargingScheduleHigher.defined /\ ~chargingScheduleLower.defined
               THEN [result |-> Returned(ph.schedule),
                     higher |-> ph.argument,
                     lower |-> chargingScheduleLower]
               ELSE IF ~chargingScheduleHigher.defined /\ chargingScheduleLower.defined
                      THEN [result |-> Returned(pl.schedule),
                            higher |-> chargingScheduleHigher,
                            lower |-> pl.argument]
                      ELSE IF ~ph.schedule.defined \/ ~pl.schedule.defined
                             THEN [result |-> Thrown,
                                   higher |-> ph.argument,
                                   lower |-> pl.argument]
                             ELSE ComposeBoth(ph, pl)

(***************************************************************************)
(* Reservations.  A connector holds at most one reservation                *)
(*   [connectorId, idTag, expiryDate]                                      *)
(* and a station-wide reservation is the one held by connector 0.          *)
(***************************************************************************)
ConnectorIds == 0..MaxConnectorId

IdTags == {"A", "B"}

ChargePointStatuses == {"Available", "Reserved"}

NoReservation == [connectorId |-> Undefined, idTag |-> "undefined", expiryDate |-> 0]

Reservations ==
  [connectorId : ConnectorIds, idTag : IdTags, expiryDate : 0..MaxClock]

\* chargingStation.getReservationBy('connectorId', value): the reservation of
\* the first connector whose reservation carries that connectorId.
getReservationBy(held, value) ==
  LET found == {c \in ConnectorIds : held[c].connectorId = value}
  IN  IF found = {}
        THEN NoReservation
        ELSE held[CHOOSE c \in found : \A d \in found : c <= d]

\* hasReservationExpired(reservation): expiryDate <= now.
hasReservationExpired(reservation, clock) == reservation.expiryDate <= clock

\* A check that leaves out the expiry test.
hasReservation_IgnoreExpiry(status, held, clock, connectorId, idTag) ==
  \/ /\ status[connectorId] = "Reserved"
     /\ getReservationBy(held, connectorId) # NoReservation
     /\ getReservationBy(held, connectorId).idTag = idTag
  \/ /\ status[0] = "Reserved"
     /\ getReservationBy(held, 0) # NoReservation
     /\ getReservationBy(held, 0).idTag = idTag

\* hasReservation(chargingStation, connectorId, idTag)
hasReservation(status, held, clock, connectorId, idTag) ==
  LET connectorReservation == getReservationBy(held, connectorId)
      chargingStationReservation == getReservationBy(held, 0)
  IN  \/ /\ status[connectorId] = "Reserved"
         /\ connectorReservation # NoReservation
         /\ ~hasReservationExpired(connectorReservation, clock)
         /\ connectorReservation.idTag = idTag
      \/ /\ status[0] = "Reserved"
         /\ chargingStationReservation # NoReservation
         /\ ~hasReservationExpired(chargingStationReservation, clock)
         /\ chargingStationReservation.idTag = idTag

NoHasReservation ==
  [called |-> FALSE, connectorId |-> 0, idTag |-> "undefined", ret |-> FALSE]

(***************************************************************************)
(* Session coordinator: changeAvailability and remoteStopTransaction.      *)
(* Both are async: a handler runs up to an await, and other work of the    *)
(* station (transactions starting and ending) runs while it is suspended.  *)
(***************************************************************************)
AvailabilityTypes == {"Operative", "Inoperative"}

\* The (chargePointStatus, availabilityType) pairs a ChangeAvailability request yields.
AvailabilityRequests ==
  {[chargePointStatus |-> "Available", availabilityType |-> "Operative"],
   [chargePointStatus |-> "Unavailable", availabilityType |-> "Inoperative"]}

\* connectorIds: number[] without repetition
ConnectorIdLists ==
  {q \in UNION {[1..n -> ConnectorIds] : n \in 0..(MaxConnectorId + 1)} :
     \A i, j \in 1..Len(q) : i # j => q[i] # q[j]}

\* stopResponse.idTagInfo?.status
StopResponses == {"missing", "Accepted", "Invalid"}

SendAndSetConnectorStatusCall(connectorId, status) ==
  [op |-> "sendAndSetConnectorStatus", connectorId |-> connectorId, arg |-> status]

StopTransactionOnConnectorCall(connectorId, reason) ==
  [op |-> "stopTransactionOnConnector", connectorId |-> connectorId, arg |-> reason]

\* OCPPServiceUtils.sendAndSetConnectorStatus: the StatusNotification is sent
\* and the connector takes the status.
sendAndSetConnectorStatus(connectorStatus, status) ==
  [connectorStatus EXCEPT !.status = status]

\* The end of a transaction: the connector goes to the status its
\* availability calls for.
endTransaction(connectorStatus) ==
  [connectorStatus EXCEPT
     !.transactionStarted = FALSE,
     !.status = IF connectorStatus.availability = "Inoperative"
                  THEN "Unavailable" ELSE "Available"]

\* The start of a transaction.
beginTransaction(connectorStatus) ==
  [connectorStatus EXCEPT !.transactionStarted = TRUE, !.status = "Charging"]

\* A loop body that leaves availability alone when the response is Scheduled.
changeAvailabilityConnector_Deferred(connectorStatus, chargePointStatus, availabilityType) ==
  IF connectorStatus.transactionStarted
    THEN [response |-> "Scheduled", connectorStatus |-> connectorStatus]
    ELSE [response |-> "Accepted",
          connectorStatus |->
            sendAndSetConnectorStatus(
              [connectorStatus EXCEPT !.availability = availabilityType],
              chargePointStatus)]

\* One iteration of the loop of changeAvailability (lines 930-944).
changeAvailabilityConnector(connectorStatus, chargePointStatus, availabilityType) ==
  LET response ==
        IF connectorStatus.transactionStarted = TRUE THEN "Scheduled" ELSE "Accepted"
      assigned == [connectorStatus EXCEPT !.availability = availabilityType]
  IN  [response |-> response,
       connectorStatus |->
         IF response = "Accepted"
           THEN sendAndSetConnectorStatus(assigned, chargePointStatus)
           ELSE assigned]

\* An aggregate that answers with the last response.
changeAvailabilityResponse_Last(responses) ==
  IF responses # <<>> /\ responses[Len(responses)] = "Scheduled"
    THEN "Scheduled" ELSE "Accepted"

\* The value changeAvailability returns (lines 946-949).
changeAvailabilityResponse(responses) ==
  IF \E i \in 1..Len(responses) : responses[i] = "Scheduled"
    THEN "Scheduled" ELSE "Accepted"

\* A return value that takes a missing idTagInfo for an acceptance.
remoteStopTransactionResponse_MissingAccepted(stopResponse) ==
  IF stopResponse \in {"Accepted", "missing"} THEN "Accepted" ELSE "Rejected"

\* The value remoteStopTransaction returns (lines 916-919).
remoteStopTransactionResponse(stopResponse) ==
  IF stopResponse = "Accepted" THEN "Accepted" ELSE "Rejected"

\* ConnectorStatus, reduced to the fields the two handlers touch: a connector
\* without a transaction is Available and Operative or Unavailable and
\* Inoperative; one with a transaction is Charging.
ConnectorStatuses ==
  {[status |-> r.chargePointStatus, availability |-> r.availabilityType,
    transactionStarted |-> FALSE] : r \in AvailabilityRequests}
  \cup {[status |-> "Charging", availability |-> a, transactionStarted |-> TRUE] :
          a \in AvailabilityTypes}

CaIdle ==
  [pc |-> "idle", connectorIds |-> <<>>, index |-> 1,
   chargePointStatus |-> "Available", availabilityType |-> "Operative",
   responses |-> <<>>, seen |-> <<>>, ret |-> "none"]

RsIdle == [pc |-> "idle", connectorId |-> 0, stopResponse |-> "none", ret |-> "none"]

(***************************************************************************)
(* UIClient (src/ui/web/src/composables/UIClient.ts).  A request is named  *)
(* by its uuid; its promise is                                             *)
(*   [state, reason, age]                                                  *)
(* with state "unsent" | "pending" | "resolved" | "rejected", the reason   *)
(* of a rejection, and the time since sendRequest was called.              *)
(***************************************************************************)
Uuids == 1..MaxRequests

\* ResponseStatus values of a response payload, and one that is neither.
ResponseStatuses == {"success", "failure", "other"}

Unsent == [state |-> "unsent", reason |-> "none", age |-> 0]

Pending == [state |-> "pending", reason |-> "none", age |-> 0]

Resolved(promise) == [promise EXCEPT !.state = "resolved"]

\* reject() on a promise that is already settled changes nothing
Rejected(promise, reason) ==
  IF promise.state = "pending"
    THEN [promise EXCEPT !.state = "rejected", !.reason = reason]
    ELSE promise

\* The body of sendRequest's promise executor (lines 180-199); it runs to its
\* end without interruption.  sendThrows says whether this.ws.send(msg) throws.
sendRequest(state, handlers, armed, uuid, sendThrows) ==
  IF state = "OPEN"
    THEN LET armedBySetTimeout == armed \cup {uuid}
             clearedInFinally == armedBySetTimeout \ {uuid}
         IN  IF sendThrows
               THEN [promise |-> Rejected(Pending, "send error"),
                     responseHandlers |-> handlers \ {uuid},
                     timers |-> clearedInFinally]
               ELSE [promise |-> Pending,
                     responseHandlers |-> handlers \cup {uuid},
                     timers |-> clearedInFinally]
    ELSE [promise |-> Rejected(Pending, "connection closed"),
          responseHandlers |-> handlers,
          timers |-> armed]

\* The callback handed to setTimeout (lines 183-186), for every timer that
\* is armed and due.
sendTimeoutCallbacks(promises, handlers, armed) ==
  LET due == {u \in armed : promises[u].age >= TimeoutTicks}
  IN  [requests |-> [u \in Uuids |->
                       IF u \in due
                         THEN Rejected(promises[u], "connection timeout")
                         ELSE promises[u]],
       responseHandlers |-> handlers \ due,
       timers |-> armed \ due]

\* A responseHandler that settles the promise and keeps the entry.
responseHandler_KeepEntry(promises, handlers, uuid, status) ==
  IF uuid \in handlers
    THEN [requests |->
            [promises EXCEPT ![uuid] =
               IF status = "success" THEN Resolved(@)
               ELSE Rejected(@, "not supported")],
          responseHandlers |-> handlers,
          thrown |-> FALSE]
    ELSE [requests |-> promises, responseHandlers |-> handlers, thrown |-> TRUE]

\* responseHandler (lines 203-232) on the message [uuid, {status}].
responseHandler(promises, handlers, uuid, status) ==
  IF uuid \in handlers
    THEN [requests |->
            [promises EXCEPT ![uuid] =
               IF status = "success" THEN Resolved(@)
               ELSE IF status = "failure" THEN Rejected(@, "failure")
               ELSE Rejected(@, "not supported")],
          responseHandlers |-> handlers \ {uuid},
          thrown |-> FALSE]
    ELSE [requests |-> promises, responseHandlers |-> handlers, thrown |-> TRUE]

(***************************************************************************)
(* buildMeterValue: the power-divider checks, the currentOutType switches  *)
(* and the energy registers.  Energies are whole hundredths of a Wh (the   *)
(* code rounds to 2 decimals); the energy template's unit is Wh, so        *)
(* unitDivider is 1.  An optional number is [defined, value].              *)
(***************************************************************************)
Some(n) == [defined |-> TRUE, value |-> n]

None == [defined |-> FALSE, value |-> 0]

\* Constants.DEFAULT_FLUCTUATION_PERCENT
DEFAULT_FLUCTUATION_PERCENT == 5

\* chargingStation.powerDivider
PowerDividers == {None} \cup {Some(n) : n \in -1..1}

\* CurrentType.AC, CurrentType.DC and a value that is neither
CurrentOutTypes == {"AC", "DC", "other"}

\* The energy SampledValueTemplate: value (the literal), minimumValue and
\* fluctuationPercent are optional; resolved is FALSE when
\* getSampledValueTemplate returns undefined.
NoTemplate ==
  [resolved |-> FALSE, value |-> None, minimumValue |-> None, fluctuationPercent |-> None,
   unit |-> "Wh"]

EnergyTemplates ==
  [resolved : {TRUE},
   value : {None, Some(-1), Some(2)},
   minimumValue : {None, Some(-1)},
   fluctuationPercent : {None, Some(50)},
   unit : {"Wh"}]

\* Energy templates without a literal value, in Wh and in kWh.
EnergyTemplatesNoLiteral ==
  [resolved : {TRUE},
   value : {None},
   minimumValue : {None, Some(-1), Some(1)},
   fluctuationPercent : {None},
   unit : {"Wh", "kWh"}]

\* energySampledValueTemplate?.unit === MeterValueUnit.KILO_WATT_HOUR ? 1000 : 1
unitDivider(template) == IF template.unit = "kWh" THEN 1000 ELSE 1

\* n / d rounded to the nearest whole number, for n >= 0 and d > 0
RoundDiv(n, d) == (2 * n + d) \div (2 * d)

\* roundTo((connectorMaximumAvailablePower * interval) / (3600 * 1000), 2), in
\* hundredths of a Wh: power in W, interval in ms
connectorMaximumEnergy(connectorMaximumAvailablePower, interval) ==
  RoundDiv(connectorMaximumAvailablePower * interval, 36000)

\* the sampling intervals, in ms
Intervals == {18000, 36000}

\* a ?? b
Coalesce(a, b) == IF a.defined THEN a.value ELSE b

Abs(n) == IF n < 0 THEN -n ELSE n

\* getRandomFloatRounded(max, min): the values it can return
getRandomFloatRounded(max, min) == min..max

\* getRandomFloatFluctuatedRounded(staticValue, fluctuationPercent): the
\* values it can return
getRandomFloatFluctuatedRounded(staticValue, fluctuationPercent) ==
  LET d == (Abs(staticValue) * fluctuationPercent) \div 100
  IN  (staticValue - d)..(staticValue + d)

\* getLimitFromSampledValueTemplateCustomValue(value, maxLimit, minLimit,
\*   {limitationEnabled, fallbackValue, unitMultiplier})
getLimitFromSampledValueTemplateCustomValue(value, maxLimit, minLimit, limitationEnabled, fallbackValue, unitMultiplier) ==
  LET raw == value * unitMultiplier
  IN  IF limitationEnabled /\ (raw < minLimit \/ raw > maxLimit)
        THEN fallbackValue
        ELSE raw

\* The values energyValueRounded can take (lines 774-800).
energyValueRounded(template, connectorMaximumEnergyRounded, limitationEnabled) ==
  LET connectorMinimumEnergyRounded == Coalesce(template.minimumValue, 0)
  IN  IF template.value.defined
        THEN getRandomFloatFluctuatedRounded(
               getLimitFromSampledValueTemplateCustomValue(
                 template.value.value,
                 connectorMaximumEnergyRounded,
                 connectorMinimumEnergyRounded,
                 limitationEnabled,
                 connectorMinimumEnergyRounded,
                 unitDivider(template)),
               Coalesce(template.fluctuationPercent, DEFAULT_FLUCTUATION_PERCENT))
        ELSE getRandomFloatRounded(connectorMaximumEnergyRounded,
                                   connectorMinimumEnergyRounded)

\* A check that only looks for an undefined powerDivider.
checkMeasurandPowerDivider_UndefinedOnly(divider) == ~divider.defined

\* checkMeasurandPowerDivider throws (lines 1358-1375).
checkMeasurandPowerDivider(divider) ==
  IF ~divider.defined
    THEN TRUE
    ELSE divider.value <= 0

\* new OCPPError(ErrorType.INTERNAL_ERROR, errMsg, OCPP16RequestCommand.METER_VALUES)
MeterThrown(energy, transactionEnergy) ==
  [outcome |-> "InternalError", command |-> "MeterValues",
   energyActiveImportRegisterValue |-> energy,
   transactionEnergyActiveImportRegisterValue |-> transactionEnergy]

\* return meterValue
MeterReturned(energy, transactionEnergy) ==
  [outcome |-> "returned", command |-> "none",
   energyActiveImportRegisterValue |-> energy,
   transactionEnergyActiveImportRegisterValue |-> transactionEnergy]

\* Registers that are put back to 0 only when both are undefined.
persistPreviousValue_Keep(energy, transactionEnergy, increment) ==
  IF ~energy.defined /\ ~transactionEnergy.defined
    THEN [energy |-> Some(0), transactionEnergy |-> Some(0)]
    ELSE [energy |-> Some(energy.value + increment),
          transactionEnergy |-> Some(transactionEnergy.value + increment)]

\* "Persist previous value on connector" (lines 801-815).
persistPreviousValue(energy, transactionEnergy, increment) ==
  IF /\ energy.defined
     /\ energy.value >= 0
     /\ transactionEnergy.defined
     /\ transactionEnergy.value >= 0
    THEN [energy |-> Some(energy.value + increment),
          transactionEnergy |-> Some(transactionEnergy.value + increment)]
    ELSE [energy |-> Some(0), transactionEnergy |-> Some(0)]

\* buildMeterValue, as far as it throws or writes the registers: the Power
\* block (lines 269-511), the Current block (lines 541-763) and the Energy
\* block (lines 769-839).  increment is the value drawn for energyValueRounded.
buildMeterValue(divider, outType, energy, transactionEnergy, powerTemplate, currentTemplate, energyTemplate, increment) ==
  IF powerTemplate /\ checkMeasurandPowerDivider(divider)
    THEN MeterThrown(energy, transactionEnergy)
  ELSE IF powerTemplate /\ outType \notin {"AC", "DC"}
    THEN MeterThrown(energy, transactionEnergy)
  ELSE IF currentTemplate /\ checkMeasurandPowerDivider(divider)
    THEN MeterThrown(energy, transactionEnergy)
  ELSE IF currentTemplate /\ outType \notin {"AC", "DC"}
    THEN MeterThrown(energy, transactionEnergy)
  ELSE IF energyTemplate.resolved /\ checkMeasurandPowerDivider(divider)
    THEN MeterThrown(energy, transactionEnergy)
  ELSE IF energyTemplate.resolved
    THEN LET r == persistPreviousValue(energy, transactionEnergy, increment)
         IN  MeterReturned(r.energy, r.transactionEnergy)
  ELSE MeterReturned(energy, transactionEnergy)

NoEnergyCall ==
  [outcome |-> "none", template |-> NoTemplate,
   connectorMaximumAvailablePower |-> 0, interval |-> 0, increment |-> 0,
   energyBefore |-> None, transactionEnergyBefore |-> None]

NoMeterCall ==
  [outcome |-> "none", command |-> "none",
   powerTemplate |-> FALSE, currentTemplate |-> FALSE, energyTemplate |-> FALSE,
   energyBefore |-> None, transactionEnergyBefore |-> None]

(***************************************************************************)
(* buildMeterValue: the SoC block (lines 97-130) and the Voltage block     *)
(* (lines 131-239).  SoC values are whole percents and voltages whole      *)
(* volts.  A template's literal value is a decimal text, held as its       *)
(* number of tenths ("100.9" is 1009).                                     *)
(***************************************************************************)
\* const socMaximumValue = 100
socMaximumValue == 100

\* parseInt(text): the digits before the decimal point
parseInt(text) == text \div 10

\* getRandomInteger(max, min): the values it can return
getRandomInteger(max, min) == min..max

\* a template that does not resolve
NoSampledValueTemplate ==
  [resolved |-> FALSE, value |-> None, minimumValue |-> None, fluctuationPercent |-> None]

SocTemplates ==
  [resolved : {TRUE},
   value : {None, Some(500), Some(1000), Some(1009)},
   minimumValue : {None, Some(20), Some(-1)},
   fluctuationPercent : {None, Some(10)}]

VoltageTemplates ==
  [resolved : {TRUE},
   value : {None, Some(240)},
   minimumValue : {None},
   fluctuationPercent : {None, Some(0)}]

\* stationInfo with getNumberOfPhases()
StationInfos ==
  [numberOfPhases : {1, 3},
   voltageOut : {20},
   mainVoltageMeterValues : BOOLEAN,
   phaseLineToLineVoltageMeterValues : BOOLEAN]

NoStationInfo ==
  [numberOfPhases |-> 1, voltageOut |-> 20, mainVoltageMeterValues |-> FALSE,
   phaseLineToLineVoltageMeterValues |-> FALSE]

\* buildSampledValue(sampledValueTemplate, value, context, phase)
buildSampledValue(measurand, value, phase) ==
  [measurand |-> measurand, phase |-> phase, value |-> value]

\* The values socSampledValueTemplateValue can take (lines 104-111).
socSampledValueTemplateValue(template) ==
  LET socMinimumValue == Coalesce(template.minimumValue, 0)
  IN  IF template.value.defined
        THEN getRandomFloatFluctuatedRounded(
               parseInt(template.value.value),
               Coalesce(template.fluctuationPercent, DEFAULT_FLUCTUATION_PERCENT))
        ELSE getRandomInteger(socMaximumValue, socMinimumValue)

\* getSampledValueTemplate(chargingStation, connectorId, VOLTAGE, phase): the
\* (measurand, *) template when there is none for the phase
getSampledValueTemplate(template, phase) == template

\* `L${phase}-N`
phaseLineToNeutralValue(phase) == "L" \o ToString(phase) \o "-N"

\* `L${phase}-L${...}` (lines 193-197)
phaseLineToLineValue(phase, numberOfPhases) ==
  "L" \o ToString(phase) \o "-L"
      \o ToString(IF (phase + 1) % numberOfPhases # 0
                    THEN (phase + 1) % numberOfPhases
                    ELSE numberOfPhases)

\* roundTo(Math.sqrt(getNumberOfPhases()) * voltageOut, 2), with sqrt(3) taken
\* as 1.732 and sqrt(1) as 1
voltagePhaseLineToLineValueRounded(info) ==
  IF info.numberOfPhases = 3
    THEN RoundDiv(1732 * info.voltageOut, 1000)
    ELSE info.voltageOut

\* The sampled values the Voltage block pushes, in the order it pushes them,
\* each with the value it fluctuates and the percent: the aggregate (lines
\* 147-155), then for each phase its line-to-neutral value (lines 161-191)
\* and, inside the same iteration, its line-to-line value (lines 192-237).
RECURSIVE voltagePhases(_, _, _)
voltagePhases(template, info, phase) ==
  IF info.numberOfPhases = 3 /\ phase <= info.numberOfPhases
    THEN LET lineToNeutral == getSampledValueTemplate(template, phaseLineToNeutralValue(phase))
             lineToLine ==
               getSampledValueTemplate(template,
                                       phaseLineToLineValue(phase, info.numberOfPhases))
         IN  <<[phase |-> phaseLineToNeutralValue(phase),
                nominal |-> IF lineToNeutral.value.defined
                              THEN parseInt(lineToNeutral.value.value)
                              ELSE info.voltageOut,
                percent |-> Coalesce(lineToNeutral.fluctuationPercent,
                                     DEFAULT_FLUCTUATION_PERCENT)]>>
             \o (IF info.phaseLineToLineVoltageMeterValues
                   THEN <<[phase |-> phaseLineToLineValue(phase, info.numberOfPhases),
                           nominal |-> IF lineToLine.value.defined
                                         THEN parseInt(lineToLine.value.value)
                                         ELSE voltagePhaseLineToLineValueRounded(info),
                           percent |-> Coalesce(lineToLine.fluctuationPercent,
                                                DEFAULT_FLUCTUATION_PERCENT)]>>
                   ELSE <<>>)
             \o voltagePhases(template, info, phase + 1)
    ELSE <<>>

voltageMeasurands(template, info) ==
  (IF \/ info.numberOfPhases # 3
      \/ (info.numberOfPhases = 3 /\ info.mainVoltageMeterValues)
     THEN <<[phase |-> "none",
             nominal |-> IF template.value.defined
                           THEN parseInt(template.value.value)
                           ELSE info.voltageOut,
             percent |-> Coalesce(template.fluctuationPercent,
                                  DEFAULT_FLUCTUATION_PERCENT)]>>
     ELSE <<>>)
  \o voltagePhases(template, info, 1)

\* The lists of sampled values a list of measurands can come out as.
RECURSIVE voltageSampledValues(_)
voltageSampledValues(measurands) ==
  IF measurands = <<>>
    THEN {<<>>}
    ELSE {<<buildSampledValue("Voltage", v, Head(measurands).phase)>> \o rest :
            v \in getRandomFloatFluctuatedRounded(Head(measurands).nominal,
                                                  Head(measurands).percent),
            rest \in voltageSampledValues(Tail(measurands))}

(***************************************************************************)
(* The connector's list under calls of the two helpers.                    *)
(***************************************************************************)
NoProfile == [chargingProfileId |-> Undefined, stackLevel |-> Undefined,
              chargingProfilePurpose |-> NoPurpose]
NoPayload == [id |-> Undefined, stackLevel |-> Undefined,
              chargingProfilePurpose |-> NoPurpose]

ProfilesIdle ==
  /\ cpKind = "array"
  /\ chargingProfiles = <<>>
  /\ lastOp = "none"
  /\ lastCp = NoProfile
  /\ lastPayload = NoPayload
  /\ lastRet = FALSE
  /\ beforeKind = "array"
  /\ before = <<>>
  /\ cleared = <<>>
  /\ repeated = FALSE
  /\ firstCp = NoProfile

ReservationIdle ==
  /\ connectorsStatus = [c \in ConnectorIds |-> "Available"]
  /\ reservations = [c \in ConnectorIds |-> NoReservation]
  /\ now = 0
  /\ lastHasReservation = NoHasReservation

SessionIdle ==
  /\ connectors = [c \in ConnectorIds |->
                     [status |-> "Available", availability |-> "Operative",
                      transactionStarted |-> FALSE]]
  /\ ca = CaIdle
  /\ rs = RsIdle
  /\ trace = <<>>

UIIdle ==
  /\ readyState = "CONNECTING"
  /\ requests = [u \in Uuids |-> Unsent]
  /\ responseHandlers = {}
  /\ timers = {}
  /\ notAResponse = FALSE

MeterIdle ==
  /\ powerDivider = Some(1)
  /\ currentOutType = "AC"
  /\ energyActiveImportRegisterValue = Some(0)
  /\ transactionEnergyActiveImportRegisterValue = Some(0)
  /\ lastMeter = NoMeterCall

\* no SoC or Voltage template, and no call yet
SoCVoltageIdle ==
  /\ socSampledValueTemplate = NoSampledValueTemplate
  /\ voltageSampledValueTemplate = NoSampledValueTemplate
  /\ stationInfo = NoStationInfo
  /\ meterValue = <<>>

SampledIdle ==
  /\ lastEnergy = NoEnergyCall
  /\ SoCVoltageIdle

ComposeIdle ==
  /\ higher = UndefinedSchedule
  /\ lower = UndefinedSchedule
  /\ compositeInterval = [start |-> 0, end |-> 0]
  /\ result = NoResult
  /\ higherIn = UndefinedSchedule
  /\ lowerIn = UndefinedSchedule
  /\ calls = 0

InitProfiles ==
  /\ ComposeIdle
  /\ ReservationIdle
  /\ SessionIdle
  /\ UIIdle
  /\ MeterIdle
  /\ SampledIdle
  /\ cpKind \in {"undefined", "notArray", "array"}
  /\ chargingProfiles = <<>>
  /\ lastOp = "none"
  /\ lastCp = NoProfile
  /\ lastPayload = NoPayload
  /\ lastRet = FALSE
  /\ beforeKind = cpKind
  /\ before = <<>>
  /\ cleared = <<>>
  /\ repeated = FALSE
  /\ firstCp = NoProfile

SetChargingProfile(cp) ==
  /\ Len(setChargingProfile(cpKind, chargingProfiles, cp)) <= MaxProfiles
  /\ chargingProfiles' = setChargingProfile(cpKind, chargingProfiles, cp)
  /\ cpKind' = "array"
  /\ lastOp' = "set"
  /\ lastCp' = cp
  /\ beforeKind' = cpKind
  /\ before' = chargingProfiles
  /\ lastPayload' = NoPayload
  /\ lastRet' = FALSE
  /\ cleared' = <<>>
  /\ repeated' = FALSE
  /\ firstCp' = IF /\ lastOp = "set"
                   /\ lastCp.stackLevel = cp.stackLevel
                   /\ lastCp.chargingProfilePurpose = cp.chargingProfilePurpose
                  THEN lastCp
                  ELSE NoProfile
  /\ UNCHANGED <<varsCompose, varsReservation, varsSession, varsUI, varsMeter, varsSampled>>

ClearChargingProfiles(payload) ==
  LET r == clearChargingProfiles(cpKind, chargingProfiles, payload)
  IN  /\ chargingProfiles' = r.list
      /\ cpKind' = cpKind
      /\ lastOp' = "clear"
      /\ lastPayload' = payload
      /\ lastRet' = r.ret
      /\ cleared' = r.removed
      /\ beforeKind' = cpKind
      /\ before' = chargingProfiles
      /\ lastCp' = NoProfile
      /\ repeated' = (lastOp = "clear" /\ lastPayload = payload)
      /\ firstCp' = NoProfile
      /\ UNCHANGED <<varsCompose, varsReservation, varsSession, varsUI, varsMeter, varsSampled>>

NextProfiles ==
  \/ \E cp \in Profiles : SetChargingProfile(cp)
  \/ \E payload \in ClearPayloads : ClearChargingProfiles(payload)

SpecProfiles == InitProfiles /\ [][NextProfiles]_vars

(***************************************************************************)
(* The schedules under composite-schedule queries.                         *)
(***************************************************************************)
\* startPeriod lists of the input schedules: strictly ascending from 0, as
\* OCPP requires, and the same lists in reverse order (the code sorts).
AscendingStarts ==
  {q \in UNION {[1..n -> 0..MaxStartPeriod] : n \in 1..MaxPeriods} :
     /\ q[1] = 0
     /\ \A i \in 1..(Len(q) - 1) : q[i] < q[i + 1]}

Reversed(q) == [i \in 1..Len(q) |-> q[Len(q) + 1 - i]]

PeriodStarts == AscendingStarts \cup {Reversed(q) : q \in AscendingStarts}

\* The limit of a period is base + startPeriod, so it names the period.
InputSchedules(base) ==
  {[defined |-> TRUE,
    startSchedule |-> s,
    duration |-> d,
    chargingSchedulePeriod |->
      [i \in 1..Len(q) |-> [startPeriod |-> q[i], limit |-> base + q[i]]]] :
     s \in 0..MaxStart, d \in 1..MaxDuration, q \in PeriodStarts}

CompositeIntervals ==
  {[start |-> s, end |-> s + d] : s \in 0..MaxCompositeStart, d \in 2..MaxDuration}

\* Scenario S4 of the specification (non-overlapping schedules).
ScenarioS4 ==
  [h |-> [defined |-> TRUE, startSchedule |-> 0, duration |-> 300,
          chargingSchedulePeriod |-> <<[startPeriod |-> 0, limit |-> 16]>>],
   l |-> [defined |-> TRUE, startSchedule |-> 400, duration |-> 200,
          chargingSchedulePeriod |-> <<[startPeriod |-> 0, limit |-> 32]>>],
   ci |-> [start |-> 0, end |-> 600]]

\* Scenario S5 of the specification (overlapping schedules, higher first).
ScenarioS5 ==
  [h |-> [defined |-> TRUE, startSchedule |-> 0, duration |-> 300,
          chargingSchedulePeriod |-> <<[startPeriod |-> 0, limit |-> 10],
                                       [startPeriod |-> 150, limit |-> 6]>>],
   l |-> [defined |-> TRUE, startSchedule |-> 200, duration |-> 400,
          chargingSchedulePeriod |-> <<[startPeriod |-> 0, limit |-> 32],
                                       [startPeriod |-> 100, limit |-> 20],
                                       [startPeriod |-> 250, limit |-> 16]>>],
   ci |-> [start |-> 0, end |-> 600]]

\* A single schedule that starts before compositeInterval and ends after it,
\* with two periods before compositeInterval.start.
ScenarioClipped ==
  [h |-> [defined |-> TRUE, startSchedule |-> 0, duration |-> 10,
          chargingSchedulePeriod |-> <<[startPeriod |-> 0, limit |-> 10],
                                       [startPeriod |-> 1, limit |-> 11],
                                       [startPeriod |-> 3, limit |-> 13]>>],
   l |-> UndefinedSchedule,
   ci |-> [start |-> 2, end |-> 5]]

ComposeInputs ==
  {[h |-> h, l |-> l, ci |-> ci] :
     h \in InputSchedules(10) \cup {UndefinedSchedule},
     l \in InputSchedules(20) \cup {UndefinedSchedule},
     ci \in CompositeIntervals}
  \cup {ScenarioS4, ScenarioS5, ScenarioClipped}

InitCompose ==
  /\ ProfilesIdle
  /\ ReservationIdle
  /\ SessionIdle
  /\ UIIdle
  /\ MeterIdle
  /\ SampledIdle
  /\ \E in \in ComposeInputs :
       /\ higher = in.h
       /\ lower = in.l
       /\ compositeInterval = in.ci
  /\ result = NoResult
  /\ higherIn = higher
  /\ lowerIn = lower
  /\ calls = 0

ComposeChargingSchedules ==
  LET r == composeChargingSchedules(higher, lower, compositeInterval)
  IN  /\ calls < MaxCalls
      /\ result' = r.result
      /\ higher' = r.higher
      /\ lower' = r.lower
      /\ higherIn' = higher
      /\ lowerIn' = lower
      /\ calls' = calls + 1
      /\ UNCHANGED compositeInterval
      /\ UNCHANGED <<varsProfiles, varsReservation, varsSession, varsUI, varsMeter, varsSampled>>

NextCompose == ComposeChargingSchedules

SpecCompose == InitCompose /\ [][NextCompose]_vars

(***************************************************************************)
(* The ledger under hasReservation calls and the passing of time.          *)
(***************************************************************************)
InitReservation ==
  /\ ProfilesIdle
  /\ ComposeIdle
  /\ SessionIdle
  /\ UIIdle
  /\ MeterIdle
  /\ SampledIdle
  /\ connectorsStatus \in [ConnectorIds -> ChargePointStatuses]
  /\ reservations \in [ConnectorIds -> Reservations \cup {NoReservation}]
  /\ \A c \in ConnectorIds :
       reservations[c] # NoReservation => reservations[c].connectorId = c
  /\ now = 0
  /\ lastHasReservation = NoHasReservation

HasReservation(connectorId, idTag) ==
  /\ lastHasReservation' =
       [called |-> TRUE, connectorId |-> connectorId, idTag |-> idTag,
        ret |-> hasReservation(connectorsStatus, reservations, now, connectorId, idTag)]
  /\ UNCHANGED <<connectorsStatus, reservations, now>>
  /\ UNCHANGED <<varsProfiles, varsCompose, varsSession, varsUI, varsMeter, varsSampled>>

\* the clock advances; no call is in progress
Tick ==
  /\ now < MaxClock
  /\ now' = now + 1
  /\ lastHasReservation' = NoHasReservation
  /\ UNCHANGED <<connectorsStatus, reservations>>
  /\ UNCHANGED <<varsProfiles, varsCompose, varsSession, varsUI, varsMeter, varsSampled>>

NextReservation ==
  \/ \E connectorId \in ConnectorIds, idTag \in IdTags : HasReservation(connectorId, idTag)
  \/ Tick

SpecReservation == InitReservation /\ [][NextReservation]_vars

(***************************************************************************)
(* The ledger under changeAvailability, remoteStopTransaction and the      *)
(* transactions that start and end while a handler is suspended.           *)
(***************************************************************************)
InitSession ==
  /\ ProfilesIdle
  /\ ComposeIdle
  /\ ReservationIdle
  /\ UIIdle
  /\ MeterIdle
  /\ SampledIdle
  /\ connectors \in [ConnectorIds -> ConnectorStatuses]
  /\ ~connectors[0].transactionStarted
  /\ ca = CaIdle
  /\ rs = RsIdle
  /\ trace = <<>>

\* No handler is between its entry and its return.
NoHandlerRunning == ca.pc \in {"idle", "done"} /\ rs.pc \in {"idle", "done"}

\* The handler in progress, if any, is suspended at an await.
Suspended ==
  \/ NoHandlerRunning
  \/ /\ ca.pc = "loop"
     /\ ca.responses # <<>>
     /\ ca.responses[Len(ca.responses)] = "Accepted"
  \/ rs.pc \in {"sent", "stopped"}

\* changeAvailability is entered (lines 922-928).
ChangeAvailabilityCall(connectorIds, request) ==
  /\ NoHandlerRunning
  /\ ca' = [pc |-> "loop", connectorIds |-> connectorIds, index |-> 1,
            chargePointStatus |-> request.chargePointStatus,
            availabilityType |-> request.availabilityType,
            responses |-> <<>>, seen |-> <<>>, ret |-> "none"]
  /\ rs' = RsIdle
  /\ trace' = <<>>
  /\ UNCHANGED connectors
  /\ UNCHANGED <<varsProfiles, varsCompose, varsReservation, varsUI, varsMeter, varsSampled>>

\* One iteration of the for loop (lines 929-945).
ChangeAvailabilityConnector ==
  /\ ca.pc = "loop"
  /\ ca.index <= Len(ca.connectorIds)
  /\ LET connectorId == ca.connectorIds[ca.index]
         r == changeAvailabilityConnector(connectors[connectorId],
                                          ca.chargePointStatus, ca.availabilityType)
     IN  /\ connectors' = [connectors EXCEPT ![connectorId] = r.connectorStatus]
         /\ trace' = IF r.response = "Accepted"
                       THEN Append(trace,
                              SendAndSetConnectorStatusCall(connectorId, ca.chargePointStatus))
                       ELSE trace
         /\ ca' = [ca EXCEPT
                     !.index = @ + 1,
                     !.responses = Append(@, r.response),
                     !.seen = Append(@, [connectorId |-> connectorId,
                                         before |-> connectors[connectorId]])]
  /\ UNCHANGED rs
  /\ UNCHANGED <<varsProfiles, varsCompose, varsReservation, varsUI, varsMeter, varsSampled>>

\* The loop is over: the aggregate is returned (lines 946-949).
ChangeAvailabilityReturn ==
  /\ ca.pc = "loop"
  /\ ca.index > Len(ca.connectorIds)
  /\ ca' = [ca EXCEPT !.pc = "done", !.ret = changeAvailabilityResponse(ca.responses)]
  /\ UNCHANGED <<connectors, rs, trace>>
  /\ UNCHANGED <<varsProfiles, varsCompose, varsReservation, varsUI, varsMeter, varsSampled>>

\* remoteStopTransaction is entered, for the connector of a running
\* transaction, and runs up to its first await (lines 903-911).
RemoteStopTransactionCall(connectorId) ==
  /\ NoHandlerRunning
  /\ connectors[connectorId].transactionStarted
  /\ rs' = [pc |-> "sent", connectorId |-> connectorId,
            stopResponse |-> "none", ret |-> "none"]
  /\ ca' = CaIdle
  /\ trace' = <<SendAndSetConnectorStatusCall(connectorId, "Finishing")>>
  /\ connectors' = [connectors EXCEPT
                      ![connectorId] = sendAndSetConnectorStatus(@, "Finishing")]
  /\ UNCHANGED <<varsProfiles, varsCompose, varsReservation, varsUI, varsMeter, varsSampled>>

\* stopTransactionOnConnector is invoked and answers (lines 912-915); the
\* transaction has ended or not when it does.
RemoteStopTransactionStop(stopResponse, ended) ==
  /\ rs.pc = "sent"
  /\ rs' = [rs EXCEPT !.pc = "stopped", !.stopResponse = stopResponse]
  /\ trace' = Append(trace, StopTransactionOnConnectorCall(rs.connectorId, "Remote"))
  /\ connectors' =
       IF ended /\ connectors[rs.connectorId].transactionStarted
         THEN [connectors EXCEPT ![rs.connectorId] = endTransaction(@)]
         ELSE connectors
  /\ UNCHANGED ca
  /\ UNCHANGED <<varsProfiles, varsCompose, varsReservation, varsUI, varsMeter, varsSampled>>

\* lines 916-919
RemoteStopTransactionReturn ==
  /\ rs.pc = "stopped"
  /\ rs' = [rs EXCEPT !.pc = "done", !.ret = remoteStopTransactionResponse(rs.stopResponse)]
  /\ UNCHANGED <<connectors, ca, trace>>
  /\ UNCHANGED <<varsProfiles, varsCompose, varsReservation, varsUI, varsMeter, varsSampled>>

\* A transaction starts on a physical connector while no handler runs or the
\* running one is suspended.
BeginTransaction(connectorId) ==
  /\ Suspended
  /\ connectorId # 0
  /\ ~connectors[connectorId].transactionStarted
  /\ connectors[connectorId].status = "Available"
  /\ connectors' = [connectors EXCEPT ![connectorId] = beginTransaction(@)]
  /\ UNCHANGED <<ca, rs, trace>>
  /\ UNCHANGED <<varsProfiles, varsCompose, varsReservation, varsUI, varsMeter, varsSampled>>

\* A transaction ends likewise.
EndTransaction(connectorId) ==
  /\ Suspended
  /\ connectors[connectorId].transactionStarted
  /\ connectors' = [connectors EXCEPT ![connectorId] = endTransaction(@)]
  /\ UNCHANGED <<ca, rs, trace>>
  /\ UNCHANGED <<varsProfiles, varsCompose, varsReservation, varsUI, varsMeter, varsSampled>>

NextSession ==
  \/ \E connectorIds \in ConnectorIdLists, request \in AvailabilityRequests :
       ChangeAvailabilityCall(connectorIds, request)
  \/ ChangeAvailabilityConnector
  \/ ChangeAvailabilityReturn
  \/ \E connectorId \in ConnectorIds : RemoteStopTransactionCall(connectorId)
  \/ \E stopResponse \in StopResponses, ended \in BOOLEAN :
       RemoteStopTransactionStop(stopResponse, ended)
  \/ RemoteStopTransactionReturn
  \/ \E connectorId \in ConnectorIds : BeginTransaction(connectorId)
  \/ \E connectorId \in ConnectorIds : EndTransaction(connectorId)

SpecSession == InitSession /\ [][NextSession]_vars

(***************************************************************************)
(* The UIClient under requests, responses, socket events and time.         *)
(***************************************************************************)
InitUI ==
  /\ ProfilesIdle
  /\ ComposeIdle
  /\ ReservationIdle
  /\ SessionIdle
  /\ MeterIdle
  /\ SampledIdle
  /\ readyState = "CONNECTING"
  /\ requests = [u \in Uuids |-> Unsent]
  /\ responseHandlers = {}
  /\ timers = {}
  /\ notAResponse = FALSE

\* this.ws.onopen
WsOpen ==
  /\ readyState = "CONNECTING"
  /\ readyState' = "OPEN"
  /\ UNCHANGED <<requests, responseHandlers, timers, notAResponse>>
  /\ UNCHANGED <<varsProfiles, varsCompose, varsReservation, varsSession, varsMeter, varsSampled>>

\* this.ws.onclose
WsClose ==
  /\ readyState = "OPEN"
  /\ readyState' = "CLOSED"
  /\ UNCHANGED <<requests, responseHandlers, timers, notAResponse>>
  /\ UNCHANGED <<varsProfiles, varsCompose, varsReservation, varsSession, varsMeter, varsSampled>>

\* setConfiguration: this.ws.close() and openWS()
SetConfiguration ==
  /\ readyState # "CONNECTING"
  /\ readyState' = "CONNECTING"
  /\ UNCHANGED <<requests, responseHandlers, timers, notAResponse>>
  /\ UNCHANGED <<varsProfiles, varsCompose, varsReservation, varsSession, varsMeter, varsSampled>>

\* sendRequest(procedureName, payload) with a fresh uuid
SendRequest(uuid, sendThrows) ==
  /\ requests[uuid].state = "unsent"
  /\ LET r == sendRequest(readyState, responseHandlers, timers, uuid, sendThrows)
     IN  /\ requests' = [requests EXCEPT ![uuid] = r.promise]
         /\ responseHandlers' = r.responseHandlers
         /\ timers' = r.timers
  /\ UNCHANGED <<readyState, notAResponse>>
  /\ UNCHANGED <<varsProfiles, varsCompose, varsReservation, varsSession, varsMeter, varsSampled>>

\* this.ws.onmessage: the server answers a request that was sent, once or again
ResponseHandler(uuid, status) ==
  /\ readyState = "OPEN"
  /\ requests[uuid].state # "unsent"
  /\ LET r == responseHandler(requests, responseHandlers, uuid, status)
     IN  /\ requests' = r.requests
         /\ responseHandlers' = r.responseHandlers
         /\ notAResponse' = r.thrown
  /\ UNCHANGED <<readyState, timers>>
  /\ UNCHANGED <<varsProfiles, varsCompose, varsReservation, varsSession, varsMeter, varsSampled>>

\* Time passes for the pending requests, and the timers that are armed and
\* due run their callback.
TimePasses ==
  /\ \E u \in Uuids : requests[u].state = "pending" /\ requests[u].age < TimeoutTicks + 1
  /\ LET aged == [u \in Uuids |->
                    IF requests[u].state = "pending" /\ requests[u].age < TimeoutTicks + 1
                      THEN [requests[u] EXCEPT !.age = @ + 1]
                      ELSE requests[u]]
         r == sendTimeoutCallbacks(aged, responseHandlers, timers)
     IN  /\ requests' = r.requests
         /\ responseHandlers' = r.responseHandlers
         /\ timers' = r.timers
  /\ UNCHANGED <<readyState, notAResponse>>
  /\ UNCHANGED <<varsProfiles, varsCompose, varsReservation, varsSession, varsMeter, varsSampled>>

NextUI ==
  \/ WsOpen
  \/ WsClose
  \/ SetConfiguration
  \/ \E uuid \in Uuids, sendThrows \in BOOLEAN : SendRequest(uuid, sendThrows)
  \/ \E uuid \in Uuids, status \in ResponseStatuses : ResponseHandler(uuid, status)
  \/ TimePasses

SpecUI == InitUI /\ [][NextUI]_vars

(***************************************************************************)
(* One connector's energy registers under buildMeterValue calls during a   *)
(* transaction.                                                            *)
(***************************************************************************)
\* The values a register can hold before the first call.
RegisterValues == {None} \cup {Some(n) : n \in -1..(MaxEnergy - 1)}

InitMeter ==
  /\ ProfilesIdle
  /\ ComposeIdle
  /\ ReservationIdle
  /\ SessionIdle
  /\ UIIdle
  /\ SampledIdle
  /\ powerDivider \in PowerDividers
  /\ currentOutType \in CurrentOutTypes
  /\ energyActiveImportRegisterValue \in RegisterValues
  /\ transactionEnergyActiveImportRegisterValue \in RegisterValues
  /\ lastMeter = NoMeterCall

\* buildMeterValue(chargingStation, connectorId, transactionId, interval)
BuildMeterValue(powerTemplate, currentTemplate, energyTemplate, connectorMaximumEnergyRounded, limitationEnabled) ==
  /\ Coalesce(energyTemplate.minimumValue, 0) <= connectorMaximumEnergyRounded
  /\ \E increment \in
         energyValueRounded(energyTemplate, connectorMaximumEnergyRounded, limitationEnabled) :
       LET r == buildMeterValue(powerDivider, currentOutType,
                                energyActiveImportRegisterValue,
                                transactionEnergyActiveImportRegisterValue,
                                powerTemplate, currentTemplate, energyTemplate, increment)
       IN  /\ r.energyActiveImportRegisterValue.value <= MaxEnergy
           /\ r.transactionEnergyActiveImportRegisterValue.value <= MaxEnergy
           /\ energyActiveImportRegisterValue' = r.energyActiveImportRegisterValue
           /\ transactionEnergyActiveImportRegisterValue' =
                r.transactionEnergyActiveImportRegisterValue
           /\ lastMeter' =
                [outcome |-> r.outcome, command |-> r.command,
                 powerTemplate |-> powerTemplate, currentTemplate |-> currentTemplate,
                 energyTemplate |-> energyTemplate.resolved,
                 energyBefore |-> energyActiveImportRegisterValue,
                 transactionEnergyBefore |-> transactionEnergyActiveImportRegisterValue]
  /\ UNCHANGED <<powerDivider, currentOutType>>
  /\ UNCHANGED <<varsProfiles, varsCompose, varsReservation, varsSession, varsUI, varsSampled>>

NextMeter ==
  \E powerTemplate \in BOOLEAN, currentTemplate \in BOOLEAN,
     energyTemplate \in EnergyTemplates \cup {NoTemplate},
     connectorMaximumEnergyRounded \in 0..MaxIncrement,
     limitationEnabled \in BOOLEAN :
    BuildMeterValue(powerTemplate, currentTemplate, energyTemplate,
                    connectorMaximumEnergyRounded, limitationEnabled)

SpecMeter == InitMeter /\ [][NextMeter]_vars

(***************************************************************************)
(* buildMeterValue on a connector whose only template is an energy         *)
(* template without a literal value: the interval and the connector's      *)
(* maximum power are inputs, and the increment drawn is recorded.          *)
(***************************************************************************)
InitEnergy ==
  /\ ProfilesIdle
  /\ ComposeIdle
  /\ ReservationIdle
  /\ SessionIdle
  /\ UIIdle
  /\ powerDivider \in PowerDividers
  /\ currentOutType = "AC"
  /\ energyActiveImportRegisterValue \in RegisterValues
  /\ transactionEnergyActiveImportRegisterValue \in RegisterValues
  /\ lastMeter = NoMeterCall
  /\ lastEnergy = NoEnergyCall
  /\ SoCVoltageIdle

\* buildMeterValue(chargingStation, connectorId, transactionId, interval)
BuildMeterValueEnergy(energyTemplate, connectorMaximumAvailablePower, interval) ==
  LET maximum == connectorMaximumEnergy(connectorMaximumAvailablePower, interval)
  IN  /\ Coalesce(energyTemplate.minimumValue, 0) <= maximum
      /\ \E increment \in energyValueRounded(energyTemplate, maximum, FALSE) :
           LET r == buildMeterValue(powerDivider, currentOutType,
                                    energyActiveImportRegisterValue,
                                    transactionEnergyActiveImportRegisterValue,
                                    FALSE, FALSE, energyTemplate, increment)
           IN  /\ r.energyActiveImportRegisterValue.value <= MaxEnergy
               /\ r.transactionEnergyActiveImportRegisterValue.value <= MaxEnergy
               /\ energyActiveImportRegisterValue' = r.energyActiveImportRegisterValue
               /\ transactionEnergyActiveImportRegisterValue' =
                    r.transactionEnergyActiveImportRegisterValue
               /\ lastEnergy' =
                    [outcome |-> r.outcome, template |-> energyTemplate,
                     connectorMaximumAvailablePower |-> connectorMaximumAvailablePower,
                     interval |-> interval,
                     increment |-> IF r.outcome = "returned" THEN increment ELSE 0,
                     energyBefore |-> energyActiveImportRegisterValue,
                     transactionEnergyBefore |-> transactionEnergyActiveImportRegisterValue]
      /\ UNCHANGED <<powerDivider, currentOutType, lastMeter>>
      /\ UNCHANGED <<socSampledValueTemplate, voltageSampledValueTemplate, stationInfo, meterValue>>
      /\ UNCHANGED <<varsProfiles, varsCompose, varsReservation, varsSession, varsUI>>

NextEnergy ==
  \E energyTemplate \in EnergyTemplatesNoLiteral,
     connectorMaximumAvailablePower \in 0..MaxPower,
     interval \in Intervals :
    BuildMeterValueEnergy(energyTemplate, connectorMaximumAvailablePower, interval)

SpecEnergy == InitEnergy /\ [][NextEnergy]_vars

(***************************************************************************)
(* buildMeterValue on a connector whose only template is a SoC template or *)
(* a Voltage template: no Power, Current or Energy template resolves, so   *)
(* the call returns after the Voltage block.  The call builds a new        *)
(* meterValue and reads nothing an earlier call wrote, so one call is      *)
(* followed from each configuration.                                       *)
(***************************************************************************)
InitSoCVoltage ==
  /\ ProfilesIdle
  /\ ComposeIdle
  /\ ReservationIdle
  /\ SessionIdle
  /\ UIIdle
  /\ MeterIdle
  /\ lastEnergy = NoEnergyCall
  /\ \/ /\ socSampledValueTemplate \in SocTemplates
        /\ voltageSampledValueTemplate = NoSampledValueTemplate
        /\ stationInfo = NoStationInfo
     \/ /\ socSampledValueTemplate = NoSampledValueTemplate
        /\ voltageSampledValueTemplate \in VoltageTemplates
        /\ stationInfo \in StationInfos
  /\ meterValue = <<>>

\* buildMeterValue(chargingStation, connectorId, transactionId, interval)
BuildMeterValueSoCVoltage ==
  /\ meterValue = <<>>
  /\ \E soc \in (IF socSampledValueTemplate.resolved
                    THEN {<<buildSampledValue("SoC", v, "none")>> :
                            v \in socSampledValueTemplateValue(socSampledValueTemplate)}
                    ELSE {<<>>}),
        voltage \in (IF voltageSampledValueTemplate.resolved
                        THEN voltageSampledValues(
                               voltageMeasurands(voltageSampledValueTemplate, stationInfo))
                        ELSE {<<>>}) :
       meterValue' = soc \o voltage
  /\ UNCHANGED <<lastEnergy, socSampledValueTemplate, voltageSampledValueTemplate, stationInfo>>
  /\ UNCHANGED <<varsProfiles, varsCompose, varsReservation, varsSession, varsUI, varsMeter>>

NextSoCVoltage == BuildMeterValueSoCVoltage

SpecSoCVoltage == InitSoCVoltage /\ [][NextSoCVoltage]_vars

(***************************************************************************)
(* Properties of clearChargingProfiles and setChargingProfile.             *)
(***************************************************************************)
\* The clearing conditions as specified: a filter is absent only when the
\* payload does not supply it.
SpecifiedClearCondition(chargingProfile, payload) ==
  \/ chargingProfile.chargingProfileId = payload.id
  \/ /\ payload.chargingProfilePurpose = NoPurpose
     /\ chargingProfile.stackLevel = payload.stackLevel
  \/ /\ payload.stackLevel = Undefined
     /\ chargingProfile.chargingProfilePurpose = payload.chargingProfilePurpose
  \/ /\ chargingProfile.stackLevel = payload.stackLevel
     /\ chargingProfile.chargingProfilePurpose = payload.chargingProfilePurpose

\* C1: after clearChargingProfiles(payload, profiles) returns, no profile left
\* in the list satisfies a clearing condition of the payload.
C1_NoMatchLeft ==
  lastOp = "clear" =>
    \A i \in 1..Len(chargingProfiles) :
      ~SpecifiedClearCondition(chargingProfiles[i], lastPayload)

\* C2: after any sequence of setChargingProfile calls on a list that starts
\* empty, no two entries share the pair (stackLevel, chargingProfilePurpose).
C2_UniqueStackLevelPurpose ==
  \A i, j \in 1..Len(chargingProfiles) :
    i # j =>
      \/ chargingProfiles[i].stackLevel # chargingProfiles[j].stackLevel
      \/ chargingProfiles[i].chargingProfilePurpose
           # chargingProfiles[j].chargingProfilePurpose

\* C7: every profile clearChargingProfiles removes satisfies a clearing
\* condition, a filter counting as absent only when it is not supplied.
C7_OnlyMatchingRemoved ==
  lastOp = "clear" =>
    \A i \in 1..Len(cleared) : SpecifiedClearCondition(cleared[i], lastPayload)

\* C8: a second clearChargingProfiles call with the same payload, made
\* directly after the first, removes nothing and returns false.
C8_ClearIdempotent ==
  (lastOp = "clear" /\ repeated) =>
    /\ lastRet = FALSE
    /\ chargingProfiles = before

\* C9: clearChargingProfiles returns true iff the list is shorter afterwards;
\* when it returns false the list (content, order, kind) is unchanged.
C9_ReturnsTrueIffShorter ==
  lastOp = "clear" =>
    /\ lastRet <=> Len(chargingProfiles) < Len(before)
    /\ ~lastRet => (chargingProfiles = before /\ cpKind = beforeKind)

\* A clear that removed at least one profile and left at least one, and the
\* list was a real array before.
C9_Witness ==
  /\ lastOp = "clear"
  /\ lastRet
  /\ Len(cleared) >= 1
  /\ Len(chargingProfiles) >= 1
  /\ Len(before) = Len(chargingProfiles) + Len(cleared)

\* Positions of the list before the last setChargingProfile whose entry has
\* cp's chargingProfileId or cp's (stackLevel, chargingProfilePurpose).
C10_Hits ==
  {i \in 1..Len(before) :
     \/ before[i].chargingProfileId = lastCp.chargingProfileId
     \/ <<before[i].stackLevel, before[i].chargingProfilePurpose>>
          = <<lastCp.stackLevel, lastCp.chargingProfilePurpose>>}

\* C10: setChargingProfile(connector, cp) puts cp at every matching position
\* and changes nothing else; with no match (or a list that was absent or not
\* an array) cp becomes the last entry and the earlier entries are unchanged.
C10_SetFrame ==
  lastOp = "set" =>
    /\ cpKind = "array"
    /\ IF beforeKind = "array" /\ C10_Hits # {}
         THEN /\ Len(chargingProfiles) = Len(before)
              /\ \A i \in 1..Len(before) :
                   chargingProfiles[i] = IF i \in C10_Hits THEN lastCp ELSE before[i]
         ELSE /\ Len(chargingProfiles) = Len(before) + 1
              /\ chargingProfiles[Len(chargingProfiles)] = lastCp
              /\ \A i \in 1..Len(before) : chargingProfiles[i] = before[i]
              /\ (beforeKind # "array" => Len(chargingProfiles) = 1)

\* A set that replaced two different entries at once: one matched by
\* chargingProfileId only, the other by (stackLevel, purpose) only.
C10_Witness ==
  /\ lastOp = "set"
  /\ Cardinality(C10_Hits) >= 2
  /\ \E i, j \in C10_Hits :
       /\ before[i].chargingProfileId = lastCp.chargingProfileId
       /\ before[i].stackLevel # lastCp.stackLevel
       /\ before[j].chargingProfileId # lastCp.chargingProfileId
  /\ \A i \in C10_Hits : chargingProfiles[i] = lastCp

\* The last two calls were setChargingProfile(p1) then setChargingProfile(p2)
\* with p1 = firstCp and p2 = lastCp of the same (stackLevel, purpose).
C11_SetTwice == lastOp = "set" /\ firstCp # NoProfile

\* C11: after setChargingProfile(p1) then setChargingProfile(p2) with the same
\* (stackLevel, purpose), the list is as long as it was after the first call,
\* p2 is in it, p1 is no longer in it when the ids differ, and a list that
\* held p1 alone holds p2 alone.
C11_SecondSetReplacesFirst ==
  C11_SetTwice =>
    /\ \E i \in 1..Len(before) : before[i] = firstCp
    /\ Len(chargingProfiles) = Len(before)
    /\ \E i \in 1..Len(chargingProfiles) : chargingProfiles[i] = lastCp
    /\ firstCp.chargingProfileId # lastCp.chargingProfileId =>
         \A i \in 1..Len(chargingProfiles) : chargingProfiles[i] # firstCp
    /\ before = <<firstCp>> => chargingProfiles = <<lastCp>>

\* Two sets of the same pair with different ids, on a list in which the first
\* set had replaced two entries.
C11_Witness ==
  /\ C11_SetTwice
  /\ firstCp.chargingProfileId # lastCp.chargingProfileId
  /\ before = <<firstCp, firstCp>>
  /\ chargingProfiles = <<lastCp, lastCp>>

(***************************************************************************)
(* Properties of composeChargingSchedules.  They are stated on the         *)
(* arguments as they were when the call was made (higherIn, lowerIn).      *)
(***************************************************************************)
IntervalOf(schedule) ==
  [start |-> schedule.startSchedule,
   end |-> schedule.startSchedule + schedule.duration]

\* The two projections the call started from.
ProjectedHigher == composeChargingSchedule(higherIn, compositeInterval).schedule
ProjectedLower == composeChargingSchedule(lowerIn, compositeInterval).schedule

\* A schedule as OCPP requires it: the periods are strictly ascending by
\* startPeriod, the first starts at 0 and each starts before the schedule ends.
WellFormed(schedule) ==
  schedule.defined =>
    LET ps == schedule.chargingSchedulePeriod
    IN  /\ Len(ps) >= 1
        /\ ps[1].startPeriod = 0
        /\ \A i \in 1..(Len(ps) - 1) : ps[i].startPeriod < ps[i + 1].startPeriod
        /\ \A i \in 1..Len(ps) : ps[i].startPeriod < schedule.duration

\* A call was made, on well-formed arguments.
Called == calls >= 1 /\ WellFormed(higherIn) /\ WellFormed(lowerIn)

BothProjected ==
  /\ Called
  /\ higherIn.defined /\ lowerIn.defined
  /\ ProjectedHigher.defined /\ ProjectedLower.defined

\* Neither argument is clipped by compositeInterval.
BothInsideComposite ==
  /\ BothProjected
  /\ \A sch \in {higherIn, lowerIn} :
       /\ compositeInterval.start <= sch.startSchedule
       /\ sch.startSchedule + sch.duration <= compositeInterval.end

Range(seq) == {seq[i] : i \in 1..Len(seq)}

\* C3: the periods of a returned schedule are strictly ascending by
\* startPeriod (sorted, and no two share a startPeriod).
C3_StrictlyAscending ==
  (Called /\ result.kind = "schedule") =>
    \A i \in 1..(Len(result.chargingSchedulePeriod) - 1) :
      result.chargingSchedulePeriod[i].startPeriod
        < result.chargingSchedulePeriod[i + 1].startPeriod

\* C4: projected intervals overlap and higher starts strictly before lower:
\* the result holds every period of higher at its original startPeriod and
\* exactly the lower periods whose instant is outside the overlap, each at
\* (its original startPeriod + lower.start - higher.start).
C4_HigherFirstOverlap ==
  LET hI == IntervalOf(higherIn)
      lI == IntervalOf(lowerIn)
      overlapEnd == IF hI.end < lI.end THEN hI.end ELSE lI.end
      overlap == [start |-> lI.start, end |-> overlapEnd]
      expected ==
        Range(higherIn.chargingSchedulePeriod)
        \cup {[p EXCEPT !.startPeriod = @ + (lI.start - hI.start)] :
                p \in {q \in Range(lowerIn.chargingSchedulePeriod) :
                         ~isWithinInterval(lI.start + q.startPeriod, overlap)}}
  IN  (/\ BothInsideComposite
       /\ result.kind = "schedule"
       /\ areIntervalsOverlapping(hI, lI)
       /\ hI.start < lI.start)
      => /\ Range(result.chargingSchedulePeriod) = expected
         /\ Len(result.chargingSchedulePeriod) = Cardinality(expected)

\* The limit in effect at instant t: that of the last period that starts at
\* or before t.
Started(start, periods, t) ==
  {i \in 1..Len(periods) : start + periods[i].startPeriod <= t}

LimitAt(start, periods, t) ==
  LET S == Started(start, periods, t)
      last == CHOOSE i \in S : \A j \in S : j <= i
  IN  periods[last].limit

InputLimitAt(schedule, t) ==
  LimitAt(schedule.startSchedule,
          SortByStartPeriod(schedule.chargingSchedulePeriod), t)

\* t is inside the schedule's interval (its last instant left out, where the
\* next schedule may already apply) and a period of it has started.
Covers(schedule, t) ==
  /\ schedule.defined
  /\ schedule.startSchedule <= t
  /\ t < schedule.startSchedule + schedule.duration
  /\ Started(schedule.startSchedule, schedule.chargingSchedulePeriod, t) # {}

\* C5: at every instant of compositeInterval that the returned schedule
\* covers, its limit is higher's limit inside higher's interval and lower's
\* limit otherwise.
C5_LimitAtEveryInstant ==
  (Called /\ result.kind = "schedule") =>
    \A t \in compositeInterval.start..compositeInterval.end :
      (/\ result.startSchedule <= t
       /\ t < result.startSchedule + result.duration
       /\ Started(result.startSchedule, result.chargingSchedulePeriod, t) # {})
      => LET got == LimitAt(result.startSchedule, result.chargingSchedulePeriod, t)
         IN  IF Covers(higherIn, t)
               THEN got = InputLimitAt(higherIn, t)
               ELSE Covers(lowerIn, t) => got = InputLimitAt(lowerIn, t)

\* C6: projected intervals do not overlap: the result is the union, the
\* earlier schedule's periods keep their startPeriod and the later one's are
\* shifted by the difference of the two starts.
C6_DisjointUnion ==
  LET hI == IntervalOf(ProjectedHigher)
      lI == IntervalOf(ProjectedLower)
      higherFirst == hI.start < lI.start
      earlier == IF higherFirst THEN ProjectedHigher ELSE ProjectedLower
      later == IF higherFirst THEN ProjectedLower ELSE ProjectedHigher
      eI == IntervalOf(earlier)
      tI == IntervalOf(later)
      expected ==
        Range(earlier.chargingSchedulePeriod)
        \cup {[p EXCEPT !.startPeriod = @ + (tI.start - eI.start)] :
                p \in Range(later.chargingSchedulePeriod)}
  IN  (BothProjected /\ ~areIntervalsOverlapping(hI, lI))
      => /\ result.kind = "schedule"
         /\ result.startSchedule = eI.start
         /\ result.duration = tI.end - eI.start
         /\ Range(result.chargingSchedulePeriod) = expected
         /\ Len(result.chargingSchedulePeriod) = Cardinality(expected)

(***************************************************************************)
(* composeChargingSchedules with at most one schedule defined.             *)
(***************************************************************************)
\* Two intervals overlap when they share more than an end point.
C12_Overlap(a, b) ==
  LET from == IF a.start >= b.start THEN a.start ELSE b.start
      to == IF a.end <= b.end THEN a.end ELSE b.end
  IN  from < to

\* The only defined argument of the last call, when there is exactly one.
C12_TheOne == IF higherIn.defined THEN higherIn ELSE lowerIn

C12_ExactlyOne == calls >= 1 /\ (higherIn.defined # lowerIn.defined)

\* C12: composeChargingSchedules returns undefined when both schedules are
\* undefined; when exactly one is defined it returns undefined if and only
\* if [startSchedule, startSchedule + duration] does not overlap
\* compositeInterval, and that schedule's projection otherwise.
C12_UndefinedIffNoOverlap ==
  /\ (calls >= 1 /\ ~higherIn.defined /\ ~lowerIn.defined)
       => result = Returned(UndefinedSchedule)
  /\ C12_ExactlyOne =>
       /\ result.kind \in {"schedule", "undefined"}
       /\ result.kind = "undefined"
            <=> ~C12_Overlap(IntervalOf(C12_TheOne), compositeInterval)
       /\ result =
            Returned(composeChargingSchedule(C12_TheOne, compositeInterval).schedule)
       /\ result.kind = "schedule" =>
            /\ result.startSchedule =
                 IF C12_TheOne.startSchedule >= compositeInterval.start
                   THEN C12_TheOne.startSchedule
                   ELSE compositeInterval.start
            /\ result.duration >= 1

\* A single schedule that ends exactly where compositeInterval starts.
C12_Witness ==
  /\ C12_ExactlyOne
  /\ IntervalOf(C12_TheOne).end = compositeInterval.start
  /\ result.kind = "undefined"

(***************************************************************************)
(* The projection of a single schedule, read off a call with exactly one   *)
(* schedule defined, and the composite of two.                             *)
(***************************************************************************)
\* The periods the projection keeps when the schedule starts before
\* compositeInterval: those whose instant is inside compositeInterval, and
\* each one whose instant is outside while that of its successor (the period
\* with the next startPeriod) is inside.
C24_Kept ==
  LET P == Range(C12_TheOne.chargingSchedulePeriod)
      In(q) == /\ compositeInterval.start <= C12_TheOne.startSchedule + q.startPeriod
               /\ C12_TheOne.startSchedule + q.startPeriod <= compositeInterval.end
      Succ(q, r) == /\ r.startPeriod > q.startPeriod
                    /\ \A x \in P : x.startPeriod > q.startPeriod
                                       => x.startPeriod >= r.startPeriod
  IN  {q \in P : In(q) \/ (\E r \in P : Succ(q, r) /\ In(r))}

\* The kept periods, the first of them moved to startPeriod 0.
C24_Expected ==
  IF C24_Kept = {}
    THEN {}
    ELSE LET first == CHOOSE q \in C24_Kept :
                        \A x \in C24_Kept : q.startPeriod <= x.startPeriod
         IN  {[first EXCEPT !.startPeriod = 0]} \cup (C24_Kept \ {first})

\* no two periods of the schedule share a startPeriod, so each period but the
\* last has one immediate successor
C24_DistinctStarts ==
  \A i, j \in 1..Len(C12_TheOne.chargingSchedulePeriod) :
    i # j => C12_TheOne.chargingSchedulePeriod[i].startPeriod
               # C12_TheOne.chargingSchedulePeriod[j].startPeriod

C24_StartsBefore ==
  /\ C12_ExactlyOne
  /\ C24_DistinctStarts
  /\ C12_TheOne.startSchedule < compositeInterval.start
  /\ C12_Overlap(IntervalOf(C12_TheOne), compositeInterval)

\* C24: a schedule that starts before compositeInterval.start and overlaps
\* it is projected to startSchedule = compositeInterval.start and duration =
\* scheduleEnd - compositeInterval.start; the projection keeps exactly the
\* periods whose instant is inside compositeInterval plus each period whose
\* instant is outside while its immediate successor's is inside; the first
\* kept period has startPeriod 0 and the others keep their startPeriod.
C24_ClippedAtStart ==
  C24_StartsBefore =>
    /\ result.kind = "schedule"
    /\ result.startSchedule = compositeInterval.start
    /\ result.duration = IntervalOf(C12_TheOne).end - compositeInterval.start
    /\ Range(result.chargingSchedulePeriod) = C24_Expected
    /\ Len(result.chargingSchedulePeriod) = Cardinality(C24_Expected)

\* the first kept period is not the schedule's first one and was moved to 0
C24_Witness ==
  /\ C24_StartsBefore
  /\ result.kind = "schedule"
  /\ Len(result.chargingSchedulePeriod) = 2
  /\ result.chargingSchedulePeriod[1].startPeriod = 0
  /\ result.chargingSchedulePeriod[1] \notin Range(C12_TheOne.chargingSchedulePeriod)

\* C26: composeChargingSchedules leaves the schedules passed to it as they
\* were: the order of each chargingSchedulePeriod list and the startPeriod of
\* each period are the same after the call as before it.
C26_ArgumentsUnchanged ==
  Called => (higher = higherIn /\ lower = lowerIn)

\* C27: for any two defined schedules and any compositeInterval,
\* composeChargingSchedules returns a schedule or undefined and never raises
\* an error.
C27_NeverThrows ==
  (Called /\ higherIn.defined /\ lowerIn.defined)
    => result.kind \in {"schedule", "undefined"}

\* C28: a defined projection of a single schedule lies inside
\* compositeInterval, also when the schedule starts before
\* compositeInterval.start and ends after compositeInterval.end.
C28_ProjectionInsideComposite ==
  (C12_ExactlyOne /\ WellFormed(C12_TheOne) /\ result.kind = "schedule") =>
    /\ compositeInterval.start <= result.startSchedule
    /\ result.startSchedule + result.duration <= compositeInterval.end

\* C29: both schedules defined and their projected intervals overlap: the
\* composite's interval runs from the earlier of the two starts to the later
\* of the two ends, also when one projected interval contains the other.
C29_CompositeIsUnion ==
  LET hI == IntervalOf(ProjectedHigher)
      lI == IntervalOf(ProjectedLower)
  IN  (BothProjected /\ C12_Overlap(hI, lI)) =>
        /\ result.kind = "schedule"
        /\ result.startSchedule = (IF hI.start <= lI.start THEN hI.start ELSE lI.start)
        /\ result.startSchedule + result.duration
             = (IF hI.end >= lI.end THEN hI.end ELSE lI.end)

(***************************************************************************)
(* Properties of hasReservation.                                           *)
(***************************************************************************)
\* A reservation for idTag that has not expired is held by connector c while
\* c is Reserved.
C13_ValidOn(c, idTag) ==
  /\ connectorsStatus[c] = "Reserved"
  /\ reservations[c] # NoReservation
  /\ reservations[c].idTag = idTag
  /\ reservations[c].expiryDate > now

C13_Returned ==
  lastHasReservation.called =>
    LET c == lastHasReservation.connectorId
        t == lastHasReservation.idTag
    IN  /\ lastHasReservation.ret <=> (C13_ValidOn(c, t) \/ C13_ValidOn(0, t))
        /\ (\A d \in ConnectorIds :
              (reservations[d] # NoReservation /\ reservations[d].idTag = t)
                => reservations[d].expiryDate <= now)
             => ~lastHasReservation.ret

\* C13: hasReservation(connectorId, idTag) returns true if and only if the
\* connector, or connector 0, is Reserved and holds a non-expired reservation
\* with that idTag; it returns false when every reservation with the idTag is
\* expired; and the call changes no connector status and no reservation.
C13_HasReservation ==
  /\ []C13_Returned
  /\ [][lastHasReservation'.called =>
          UNCHANGED <<connectorsStatus, reservations>>]_vars

\* Connector 1 is not Reserved, yet the station-wide reservation answers for it.
C13_Witness ==
  /\ lastHasReservation.called
  /\ lastHasReservation.connectorId = 1
  /\ lastHasReservation.ret
  /\ connectorsStatus[1] # "Reserved"
  /\ now > 0

\* An expired reservation with the idTag on a Reserved connector: false.
C13_WitnessExpired ==
  /\ lastHasReservation.called
  /\ ~lastHasReservation.ret
  /\ C13_ValidOn(lastHasReservation.connectorId, lastHasReservation.idTag) = FALSE
  /\ connectorsStatus[lastHasReservation.connectorId] = "Reserved"
  /\ reservations[lastHasReservation.connectorId].idTag = lastHasReservation.idTag
  /\ reservations[lastHasReservation.connectorId].expiryDate = now

(***************************************************************************)
(* Properties of changeAvailability and remoteStopTransaction.             *)
(***************************************************************************)
\* The step is a loop iteration of changeAvailability on a connector that has
\* an active transaction.
C14_ProcessedWhileActive ==
  /\ ca.pc = "loop"
  /\ ca.index <= Len(ca.connectorIds)
  /\ ca'.index = ca.index + 1
  /\ connectors[ca.connectorIds[ca.index]].transactionStarted

\* C14, as the code has it: for a connector with an active transaction the
\* response is Scheduled, no status notification is sent and the status
\* stays, but the availability field takes the requested value at once,
\* while the transaction is still active.
C14_ScheduledSetsAvailabilityAtOnce ==
  [][C14_ProcessedWhileActive =>
       LET c == ca.connectorIds[ca.index]
       IN  /\ ca'.responses = Append(ca.responses, "Scheduled")
           /\ trace' = trace
           /\ connectors'[c].status = connectors[c].status
           /\ connectors'[c].transactionStarted
           /\ connectors'[c].availability = ca.availabilityType]_vars

\* C14, as claimed: for a connector with an active transaction the change is
\* only recorded as Scheduled; neither its status nor its availability field
\* changes while the transaction is active.
C14_NothingChangesWhileActive ==
  [][C14_ProcessedWhileActive =>
       LET c == ca.connectorIds[ca.index]
       IN  /\ ca'.responses = Append(ca.responses, "Scheduled")
           /\ connectors'[c].status = connectors[c].status
           /\ connectors'[c].availability = connectors[c].availability]_vars

\* The last connector processed is still in its transaction and its
\* availability is no longer what it was.
C14_Witness ==
  /\ ca.pc \in {"loop", "done"}
  /\ ca.seen # <<>>
  /\ LET last == ca.seen[Len(ca.seen)]
     IN  /\ last.before.transactionStarted
         /\ connectors[last.connectorId].transactionStarted
         /\ connectors[last.connectorId].status = "Charging"
         /\ last.before.availability = "Operative"
         /\ connectors[last.connectorId].availability = "Inoperative"
         /\ ca.responses[Len(ca.responses)] = "Scheduled"

\* The positions of the list whose connector had no active transaction when
\* it was processed.
C15_Accepted == {i \in 1..Len(ca.seen) : ~ca.seen[i].before.transactionStarted}

C15_Done ==
  ca.pc = "done" =>
    /\ Len(ca.seen) = Len(ca.connectorIds)
    /\ \A i \in 1..Len(ca.seen) : ca.seen[i].connectorId = ca.connectorIds[i]
    /\ ca.ret = IF C15_Accepted # 1..Len(ca.seen) THEN "Scheduled" ELSE "Accepted"
    /\ ca.connectorIds = <<>> => ca.ret = "Accepted"
    /\ Len(trace) = Cardinality(C15_Accepted)
    /\ {trace[k] : k \in 1..Len(trace)} =
         {SendAndSetConnectorStatusCall(ca.connectorIds[i], ca.chargePointStatus) :
            i \in C15_Accepted}

\* C15: changeAvailability returns Scheduled if and only if at least one
\* listed connector had transactionStarted = true when it was processed and
\* Accepted otherwise (an empty list included); the transition to the
\* requested status is made exactly for the listed connectors that had no
\* active transaction.
C15_ScheduledIffSomeActive ==
  /\ []C15_Done
  /\ [][(ca.pc = "loop" /\ ca.index <= Len(ca.connectorIds) /\ ca'.index = ca.index + 1)
          => LET c == ca.connectorIds[ca.index]
             IN  IF connectors[c].transactionStarted
                   THEN connectors'[c].status = connectors[c].status
                   ELSE connectors'[c].status = ca.chargePointStatus]_vars

\* Two connectors listed, one in a transaction: Scheduled, one transition.
C15_Witness ==
  /\ ca.pc = "done"
  /\ Len(ca.connectorIds) = 2
  /\ ca.ret = "Scheduled"
  /\ Len(trace) = 1
  /\ ca.seen[1].before.transactionStarted

C16_Ordered ==
  /\ rs.pc = "sent" =>
       trace = <<SendAndSetConnectorStatusCall(rs.connectorId, "Finishing")>>
  /\ rs.pc \in {"stopped", "done"} =>
       trace = <<SendAndSetConnectorStatusCall(rs.connectorId, "Finishing"),
                 StopTransactionOnConnectorCall(rs.connectorId, "Remote")>>
  /\ rs.pc = "done" =>
       /\ rs.ret \in {"Accepted", "Rejected"}
       /\ rs.ret = "Accepted" <=> rs.stopResponse = "Accepted"

\* C16: remoteStopTransaction first moves the connector to Finishing, with
\* its status notification, and only afterwards invokes
\* stopTransactionOnConnector with reason Remote; it returns Accepted if and
\* only if the stop response's idTagInfo.status is Accepted, and Rejected
\* otherwise, a missing idTagInfo included.
C16_FinishingThenStop ==
  /\ []C16_Ordered
  /\ [][(rs.pc # "sent" /\ rs'.pc = "sent")
          => connectors'[rs'.connectorId].status = "Finishing"]_vars

\* The stop response carries no idTagInfo: Rejected.
C16_Witness ==
  /\ rs.pc = "done"
  /\ rs.stopResponse = "missing"
  /\ rs.ret = "Rejected"
  /\ Len(trace) = 2

(***************************************************************************)
(* Properties of UIClient.sendRequest.                                     *)
(***************************************************************************)
\* C17: every request sent on an open socket is settled: when no response
\* with its uuid has arrived within the timeout, its promise has been
\* rejected with 'connection timeout' and its entry has been removed from
\* responseHandlers, so no promise is pending and no handler is registered
\* once the timeout has run out.
C17_SettledWithinTimeout ==
  \A u \in Uuids :
    /\ requests[u].state = "pending" => requests[u].age < TimeoutTicks
    /\ u \in responseHandlers => requests[u].age < TimeoutTicks

\* a request whose promise is resolved or rejected
C25_IsSettled(u) == requests[u].state \in {"resolved", "rejected"}

\* C25: each pending request is settled at most once: a response whose uuid
\* is in responseHandlers resolves the promise when its status is success
\* and rejects it otherwise, then removes the entry, so a later response with
\* the same uuid settles nothing; a response whose uuid is not in
\* responseHandlers raises an error and leaves responseHandlers unchanged.
C25_SettledAtMostOnce ==
  [][/\ \A u \in Uuids : C25_IsSettled(u) => requests'[u] = requests[u]
     /\ \A u \in responseHandlers : requests[u].state = "pending"
     /\ \A uuid \in Uuids, status \in ResponseStatuses :
          ResponseHandler(uuid, status) =>
            IF uuid \in responseHandlers
              THEN /\ requests'[uuid].state =
                        (IF status = "success" THEN "resolved" ELSE "rejected")
                   /\ responseHandlers' = responseHandlers \ {uuid}
                   /\ \A u \in Uuids \ {uuid} : requests'[u] = requests[u]
                   /\ ~notAResponse'
              ELSE /\ notAResponse'
                   /\ UNCHANGED <<requests, responseHandlers>>]_vars

\* the only request that was sent is resolved, its entry is gone, and a
\* second response with its uuid raised the error
C25_Witness ==
  /\ requests[1].state = "resolved"
  /\ \A u \in Uuids \ {1} : requests[u].state = "unsent"
  /\ responseHandlers = {}
  /\ notAResponse

(***************************************************************************)
(* Claims about the energy registers under buildMeterValue.                *)
(***************************************************************************)
\* C18: across buildMeterValue calls on one connector, neither
\* energyActiveImportRegisterValue nor
\* transactionEnergyActiveImportRegisterValue decreases from one call to the
\* next, for every energy template and every prior register state.
C18_RegistersNeverDecrease ==
  [][/\ (energyActiveImportRegisterValue.defined
          => energyActiveImportRegisterValue'.value
               >= energyActiveImportRegisterValue.value)
     /\ (transactionEnergyActiveImportRegisterValue.defined
          => transactionEnergyActiveImportRegisterValue'.value
               >= transactionEnergyActiveImportRegisterValue.value)]_vars

\* 0 <= transaction register <= lifetime register, both defined
C19_Relation(energy, transactionEnergy) ==
  /\ energy.defined
  /\ transactionEnergy.defined
  /\ 0 <= transactionEnergy.value
  /\ transactionEnergy.value <= energy.value

\* C19: a buildMeterValue call made in a connector state where
\* 0 <= transactionEnergyActiveImportRegisterValue <=
\* energyActiveImportRegisterValue leaves a state where that relation holds.
C19_RelationPreserved ==
  (/\ lastMeter.outcome # "none"
   /\ C19_Relation(lastMeter.energyBefore, lastMeter.transactionEnergyBefore))
    => C19_Relation(energyActiveImportRegisterValue,
                    transactionEnergyActiveImportRegisterValue)

\* powerDivider is undefined or <= 0 and a Power, Current or Energy template
\* resolved in the last call
C20_NoDivider ==
  /\ lastMeter.outcome # "none"
  /\ (~powerDivider.defined \/ powerDivider.value <= 0)
  /\ (lastMeter.powerTemplate \/ lastMeter.currentTemplate \/ lastMeter.energyTemplate)

\* C20: with powerDivider undefined or <= 0 and a Power, Current or Energy
\* template resolving, buildMeterValue raises an InternalError bound to
\* command MeterValues, returns no meter value and leaves both energy
\* registers as they were.
C20_RaisesAndKeepsRegisters ==
  C20_NoDivider =>
    /\ lastMeter.outcome = "InternalError"
    /\ lastMeter.command = "MeterValues"
    /\ energyActiveImportRegisterValue = lastMeter.energyBefore
    /\ transactionEnergyActiveImportRegisterValue = lastMeter.transactionEnergyBefore

\* a call with powerDivider 0 where only the energy template resolves, on
\* registers the energy block would have added to
C20_Witness ==
  /\ powerDivider = Some(0)
  /\ lastMeter.outcome = "InternalError"
  /\ lastMeter.energyTemplate
  /\ ~lastMeter.powerTemplate
  /\ ~lastMeter.currentTemplate
  /\ lastMeter.energyBefore = Some(2)
  /\ lastMeter.transactionEnergyBefore = Some(1)
  /\ energyActiveImportRegisterValue = Some(2)

(***************************************************************************)
(* Claims about the energy block of buildMeterValue.                       *)
(***************************************************************************)
\* the energy block ran in the last call
C21_EnergyBlockRan == lastEnergy.outcome = "returned"

\* both registers were defined and non-negative before the last call
C21_BothNonNegative ==
  /\ lastEnergy.energyBefore.defined
  /\ lastEnergy.energyBefore.value >= 0
  /\ lastEnergy.transactionEnergyBefore.defined
  /\ lastEnergy.transactionEnergyBefore.value >= 0

\* round(maxPower * intervalMillis / 3_600_000 / unitDivider, 2)
C21_ConnectorMaxEnergy ==
  RoundDiv(lastEnergy.connectorMaximumAvailablePower * lastEnergy.interval,
           36000 * (IF lastEnergy.template.unit = "kWh" THEN 1000 ELSE 1))

\* C21: with an energy template without a literal value and both registers
\* non-negative, a buildMeterValue call adds one and the same increment d to
\* both registers, with 0 <= d <= connectorMaxEnergy =
\* round(maxPower * intervalMillis / 3_600_000 / unitDivider, 2), unitDivider
\* being 1000 for a kWh template and 1 otherwise.
C21_IncrementWithinMaxEnergy ==
  (C21_EnergyBlockRan /\ C21_BothNonNegative) =>
    LET d == energyActiveImportRegisterValue.value - lastEnergy.energyBefore.value
    IN  /\ transactionEnergyActiveImportRegisterValue.value
             = lastEnergy.transactionEnergyBefore.value + d
        /\ 0 <= d
        /\ d <= C21_ConnectorMaxEnergy

\* C30: with an energy template and an existing connector, when both
\* registers are defined and non-negative the increment is added to both;
\* otherwise (either register undefined or negative) both registers are set
\* to 0 and the increment is not added, whatever the other register held.
C30_AddOrReset ==
  C21_EnergyBlockRan =>
    IF C21_BothNonNegative
      THEN /\ energyActiveImportRegisterValue
                = Some(lastEnergy.energyBefore.value + lastEnergy.increment)
           /\ transactionEnergyActiveImportRegisterValue
                = Some(lastEnergy.transactionEnergyBefore.value + lastEnergy.increment)
      ELSE /\ energyActiveImportRegisterValue = Some(0)
           /\ transactionEnergyActiveImportRegisterValue = Some(0)

\* the lifetime register held 2, the transaction register was undefined and
\* the increment drawn was 1: both registers are 0 after the call
C30_Witness ==
  /\ C21_EnergyBlockRan
  /\ lastEnergy.energyBefore = Some(2)
  /\ lastEnergy.transactionEnergyBefore = None
  /\ lastEnergy.increment = 1
  /\ energyActiveImportRegisterValue = Some(0)
  /\ transactionEnergyActiveImportRegisterValue = Some(0)

\* both registers were non-negative and the increment 1 was added to both
C30_WitnessAdded ==
  /\ C21_EnergyBlockRan
  /\ lastEnergy.energyBefore = Some(2)
  /\ lastEnergy.transactionEnergyBefore = Some(1)
  /\ lastEnergy.increment = 1
  /\ energyActiveImportRegisterValue = Some(3)
  /\ transactionEnergyActiveImportRegisterValue = Some(2)

(***************************************************************************)
(* Claims about the SoC and Voltage sampled values.                        *)
(***************************************************************************)
\* C22: every SoC sampled value emitted by buildMeterValue satisfies
\* 0 <= value <= 100, for every SoC template, also one with a literal value
\* to which the fluctuation percent is applied.
C22_SoCWithinRange ==
  \A i \in 1..Len(meterValue) :
    meterValue[i].measurand = "SoC" =>
      (0 <= meterValue[i].value /\ meterValue[i].value <= 100)

\* the phases of the voltage sampled values of the last call, in order
C23_VoltagePhases ==
  LET idx == IndexSeq({i \in 1..Len(meterValue) : meterValue[i].measurand = "Voltage"})
  IN  [k \in 1..Len(idx) |-> meterValue[idx[k]].phase]

\* C23: on a three-phase station with a Voltage template,
\* mainVoltageMeterValues = false and phaseLineToLineVoltageMeterValues =
\* true, the voltage sampled values come in the order L1-N, L2-N, L3-N,
\* L1-L2, L2-L3, L3-L1 and there is no aggregate voltage value.
C23_LineToNeutralFirst ==
  (/\ meterValue # <<>>
   /\ voltageSampledValueTemplate.resolved
   /\ stationInfo.numberOfPhases = 3
   /\ ~stationInfo.mainVoltageMeterValues
   /\ stationInfo.phaseLineToLineVoltageMeterValues)
    => C23_VoltagePhases = <<"L1-N", "L2-N", "L3-N", "L1-L2", "L2-L3", "L3-L1">>

====
